---- MODULE Spec2Model ----
(***************************************************************************)
(* ezformant: the analysis scheduler of webapp/src/ui/App.tsx (the second  *)
(* App component of the file, lines 913-2671), the formant worker of       *)
(* webapp/src/formantWorker.ts and the history buffer.                     *)
(*                                                                         *)
(* The main thread and the worker are two event loops.  Every action below *)
(* is one task of one of them: a handler runs from its start to its first  *)
(* await (or to its end), and an await that resolves resumes the handler   *)
(* in a later action.                                                      *)
(***************************************************************************)
EXTENDS Integers, Sequences, FiniteSets, TLC

(***************************************************************************)
(* Bounds of the model and constants of the program.                       *)
(***************************************************************************)
\* calcFormants requests posted in one behaviour (the code posts without end)
MaxPosted == 2

\* calls of startMicInput and startFilePlayback in one behaviour
MaxInputCalls == 2

\* App.tsx:690, App.tsx:691
MAX_HISTORY == 1000
FORMANT_INTERVAL_MS == 100

(***************************************************************************)
(* JavaScript numbers as the worker can return them: a finite number, NaN, *)
(* an infinity, or undefined (a missing array element).                    *)
(***************************************************************************)
Num(n) == [k |-> "finite", v |-> n]
NaN == [k |-> "NaN", v |-> 0]
PosInf == [k |-> "Infinity", v |-> 1]
NegInf == [k |-> "-Infinity", v |-> -1]
Undefined == [k |-> "undefined", v |-> 0]

\* What formant_detection_with_downsampling and pitch_detection can hand back
\* (the WASM package is not part of the sources: its results are inputs).
WorkerResults ==
    { [pitch |-> Num(110), formants |-> <<Num(500), Num(1500), Num(2500), Num(3500)>>],
      [pitch |-> NaN, formants |-> <<Num(700), Num(-1), PosInf>>] }

\* const [rawF1, rawF2, rawF3, rawF4] = message.formants
At(arr, i) == IF i <= Len(arr) THEN arr[i] ELSE Undefined

SanitizeKeepsNegative(value) == IF value.k = "finite" THEN value.v ELSE 0

\* Number.isFinite(value) && value > 0 ? value : 0
sanitize(value) == IF value.k = "finite" /\ value.v > 0 THEN value.v ELSE 0

(***************************************************************************)
(* The numbers of the LPC helpers (App.tsx:797-911).  A finite number is   *)
(* held exactly, as a sum of rational multiples of powers of F, where 1/F  *)
(* is the literal 1e-12: a function from the exponents whose coefficient   *)
(* is not zero to those coefficients.  Rounding is left out.  F is taken   *)
(* to exceed every ratio of coefficients, so the sign of a number is the   *)
(* sign of the coefficient of its highest exponent.                        *)
(***************************************************************************)
RECURSIVE Gcd(_, _)
Gcd(a, b) == IF b = 0 THEN a ELSE Gcd(b, a % b)

Magnitude(n) == IF n < 0 THEN -n ELSE n

\* the fraction n/d in lowest terms, its denominator positive
Rat(n, d) ==
    LET g == Gcd(Magnitude(n), Magnitude(d))
        s == IF d < 0 THEN -1 ELSE 1
    IN [n |-> s * (n \div g), d |-> s * (d \div g)]

RatAdd(a, b) ==
    LET g == Gcd(a.d, b.d)
    IN Rat(a.n * (b.d \div g) + b.n * (a.d \div g), (a.d \div g) * b.d)

RatMul(a, b) ==
    LET g1 == Gcd(Magnitude(a.n), b.d)
        g2 == Gcd(Magnitude(b.n), a.d)
    IN Rat((a.n \div g1) * (b.n \div g2), (a.d \div g2) * (b.d \div g1))

RatInv(a) == Rat(a.d, a.n)

Coef(p, i) == IF i \in DOMAIN p THEN p[i] ELSE Rat(0, 1)
Trim(p) == [i \in {j \in DOMAIN p : p[j].n # 0} |-> p[i]]
PolyAdd(p, q) == Trim([i \in DOMAIN p \cup DOMAIN q |-> RatAdd(Coef(p, i), Coef(q, i))])
PolyNeg(p) == [i \in DOMAIN p |-> Rat(-p[i].n, p[i].d)]

RECURSIVE Conv(_, _, _, _)
Conv(p, q, e, S) ==
    IF S = {} THEN Rat(0, 1)
    ELSE LET i == CHOOSE x \in S : TRUE
         IN RatAdd(RatMul(p[i], q[e - i]), Conv(p, q, e, S \ {i}))

PolyMul(p, q) ==
    Trim([e \in {i + j : i \in DOMAIN p, j \in DOMAIN q} |->
             Conv(p, q, e, {i \in DOMAIN p : e - i \in DOMAIN q})])

Highest(S) == CHOOSE x \in S : \A y \in S : y <= x
PolySign(p) == IF DOMAIN p = {} THEN 0 ELSE IF p[Highest(DOMAIN p)].n > 0 THEN 1 ELSE -1

\* division by a number of one term; no other divisor is held exactly
PolyDiv(p, q) ==
    LET j == CHOOSE x \in DOMAIN q : DOMAIN q = {x}
    IN [i \in {x - j : x \in DOMAIN p} |-> RatMul(p[i + j], RatInv(q[j]))]

Real(n, d) == [k |-> "finite", v |-> Trim([i \in {0} |-> Rat(n, d)])]
Zero == Real(0, 1)
One == Real(1, 1)
\* the literal 1e-12
EnergyFloor == [k |-> "finite", v |-> [i \in {-1} |-> Rat(1, 1)]]

Infinite(x) == x.k \in {"Infinity", "-Infinity"}
Signed(s) == IF s > 0 THEN PosInf ELSE NegInf
Sign(x) == IF x.k = "finite" THEN PolySign(x.v) ELSE x.v

\* IEEE arithmetic on these numbers; undefined converts to NaN
IsNaN(x) == x.k \in {"NaN", "undefined"}

Add(x, y) ==
    IF IsNaN(x) \/ IsNaN(y) THEN NaN
    ELSE IF Infinite(x) /\ Infinite(y) THEN (IF x = y THEN x ELSE NaN)
    ELSE IF Infinite(x) THEN x
    ELSE IF Infinite(y) THEN y
    ELSE [k |-> "finite", v |-> PolyAdd(x.v, y.v)]

Neg(x) ==
    IF IsNaN(x) THEN NaN
    ELSE IF Infinite(x) THEN Signed(-x.v)
    ELSE [k |-> "finite", v |-> PolyNeg(x.v)]

Sub(x, y) == Add(x, Neg(y))

Mul(x, y) ==
    IF IsNaN(x) \/ IsNaN(y) THEN NaN
    ELSE IF Infinite(x) \/ Infinite(y)
    THEN (IF Sign(x) * Sign(y) = 0 THEN NaN ELSE Signed(Sign(x) * Sign(y)))
    ELSE [k |-> "finite", v |-> PolyMul(x.v, y.v)]

Div(x, y) ==
    IF IsNaN(x) \/ IsNaN(y) THEN NaN
    ELSE IF Infinite(x) THEN (IF Infinite(y) THEN NaN
                              ELSE Signed(Sign(x) * (IF Sign(y) < 0 THEN -1 ELSE 1)))
    ELSE IF Infinite(y) THEN Zero
    ELSE IF Sign(y) = 0 THEN (IF Sign(x) = 0 THEN NaN ELSE Signed(Sign(x)))
    ELSE [k |-> "finite", v |-> PolyDiv(x.v, y.v)]

\* x < y; a comparison with NaN is false
Lt(x, y) ==
    /\ ~IsNaN(x) /\ ~IsNaN(y)
    /\ x # y
    /\ IF Infinite(x) \/ Infinite(y) THEN x = NegInf \/ y = PosInf
       ELSE PolySign(PolyAdd(y.v, PolyNeg(x.v))) > 0

MathAbs(x) == IF IsNaN(x) THEN NaN ELSE IF Sign(x) < 0 THEN Neg(x) ELSE x

NumberIsFinite(x) == x.k = "finite"

RECURSIVE Sum(_)
Sum(terms) == IF terms = <<>> THEN Zero ELSE Add(Head(terms), Sum(Tail(terms)))

(***************************************************************************)
(* The LPC helpers (App.tsx:797-911).  A typed array is a sequence; the    *)
(* element the code calls data[i] is the (i+1)-th of the sequence.         *)
(***************************************************************************)
\* data[i], undefined when i is past the end
Elem(data, i) == IF i + 1 \in 1 .. Len(data) THEN data[i + 1] ELSE Undefined

\* lines 797-808
subtractMeanInPlace(data) ==
    LET n == Len(data)
        mean == Div(Sum(data), Real(n, 1))
    IN IF n = 0 THEN data ELSE [i \in 1 .. n |-> Sub(data[i], mean)]

\* Math.cos(2 * Math.PI * ratio), for the ratios whose cosine is rational
Cos2Pi(ratio) ==
    IF ~NumberIsFinite(ratio) THEN NaN
    ELSE CASE ratio \in {Zero, One} -> One
           [] ratio = Real(1, 2) -> Real(-1, 1)
           [] ratio \in {Real(1, 3), Real(2, 3)} -> Real(-1, 2)
           [] ratio \in {Real(1, 4), Real(3, 4)} -> Zero
           [] ratio \in {Real(1, 6), Real(5, 6)} -> Real(1, 2)

\* lines 810-819
applyHammingWindowInPlace(data) ==
    LET n == Len(data)
        last == n - 1
        w(i) == Sub(Real(27, 50), Mul(Real(23, 50), Cos2Pi(Div(Real(i, 1), Real(last, 1)))))
    IN IF n = 0 THEN data ELSE [i \in 1 .. n |-> Mul(data[i], w(i - 1))]

\* a filter that reads the sample it has just written
RECURSIVE PreEmphasizeFiltered(_, _)
PreEmphasizeFiltered(data, alpha) ==
    IF Len(data) = 0 THEN data
    ELSE IF Len(data) = 1 THEN <<Mul(Sub(One, alpha), data[1])>>
    ELSE LET init == PreEmphasizeFiltered(SubSeq(data, 1, Len(data) - 1), alpha)
         IN Append(init, Sub(data[Len(data)], Mul(alpha, init[Len(init)])))

\* lines 821-831
preEmphasizeInPlace(data, alpha) ==
    LET n == Len(data)
    IN IF n = 0 THEN data
       ELSE [i \in 1 .. n |-> IF i = 1 THEN Mul(Sub(One, alpha), data[1])
                                        ELSE Sub(data[i], Mul(alpha, data[i - 1]))]

PreprocessWindowLast(data, alpha) ==
    applyHammingWindowInPlace(preEmphasizeInPlace(subtractMeanInPlace(data), alpha))

\* lines 833-837
preprocessSignalForLpc(data, alpha) ==
    preEmphasizeInPlace(applyHammingWindowInPlace(subtractMeanInPlace(data)), alpha)

AutocorrelateCircular(signal, maxLag) ==
    LET n == Len(signal)
    IN [l \in 1 .. maxLag + 1 |->
           Sum([i \in 1 .. n |-> Mul(signal[i], signal[((i + l - 2) % n) + 1])])]

\* lines 839-853
autocorrelateForLpc(signal, maxLag) ==
    LET n == Len(signal)
    IN [l \in 1 .. maxLag + 1 |->
           Sum([i \in 1 .. (IF n > l - 1 THEN n - (l - 1) ELSE 0) |->
                   Mul(signal[i], signal[i + l - 1])])]

NeverTooShort(order, r) == FALSE

\* the guard of line 856
TooShort(order, r) == Len(r) < order + 1

InitialEnergyUnfloored(r0) == r0

\* line 862
InitialEnergy(r0) == IF Lt(MathAbs(r0), EnergyFloor) THEN EnergyFloor ELSE r0

\* lines 865-868: acc after the terms j, j+1, ... i-1 have been added
RECURSIVE Accumulate(_, _, _, _, _)
Accumulate(a, r, i, j, acc) ==
    IF j < i THEN Accumulate(a, r, i, j + 1, Add(acc, Mul(Elem(a, j), Elem(r, i - j))))
    ELSE acc

ZeroCoefficients(order) == [x \in 1 .. order + 1 |-> Zero]

\* lines 859-860: new Float64Array(order + 1) with a[0] = 1
InitialCoefficients(order) == [x \in 1 .. order + 1 |-> IF x = 1 THEN One ELSE Zero]

\* the loop of lines 871-873 writing into a itself: a[j] for j = from .. i-1
RECURSIVE UpdateInPlaceFrom(_, _, _, _)
UpdateInPlaceFrom(a, k, i, from) ==
    IF from < i
    THEN UpdateInPlaceFrom([a EXCEPT ![from + 1] = Add(a[from + 1], Mul(k, Elem(a, i - from)))],
                           k, i, from + 1)
    ELSE [a EXCEPT ![i + 1] = k]

UpdateInPlace(a, k, i) == UpdateInPlaceFrom(a, k, i, 1)

\* lines 870-875: aNext, a copy of a updated from a, which then replaces a
NextCoefficients(a, k, i) ==
    [x \in 1 .. Len(a) |->
        IF x - 1 \in 1 .. i - 1 THEN Add(a[x], Mul(k, Elem(a, i - (x - 1))))
        ELSE IF x - 1 = i THEN k ELSE a[x]]

\* lines 864-880: iteration i and those after it.  s.a is the array a, s.e
\* the energy, s.divisors the values e has held at the divisions so far,
\* s.ks the values of k and s.steps the array a after each iteration so far.
RECURSIVE Iterate(_, _, _, _)
Iterate(order, r, i, s) ==
    IF i > order THEN s
    ELSE LET k == Div(Neg(Accumulate(s.a, r, i, 1, Elem(r, i))), s.e)
             aNext == NextCoefficients(s.a, k, i)
             e == Mul(s.e, Sub(One, Mul(k, k)))
         IN Iterate(order, r, i + 1,
                    [a |-> aNext,
                     e |-> IF Lt(e, EnergyFloor) THEN EnergyFloor ELSE e,
                     divisors |-> Append(s.divisors, s.e),
                     ks |-> Append(s.ks, k),
                     steps |-> Append(s.steps, aNext)])

\* lines 855-882.  threw: the function threw; a: the array it returned;
\* e: the energy at its return.
levinsonForLpc(order, r) ==
    IF TooShort(order, r)
    THEN [threw |-> TRUE, a |-> <<>>, e |-> Undefined, divisors |-> <<>>, ks |-> <<>>,
          steps |-> <<>>]
    ELSE LET s == Iterate(order, r, 1,
                          [a |-> InitialCoefficients(order),
                           e |-> InitialEnergy(Elem(r, 0)),
                           divisors |-> <<>>, ks |-> <<>>, steps |-> <<>>])
         IN [threw |-> FALSE, a |-> s.a, e |-> s.e, divisors |-> s.divisors, ks |-> s.ks,
             steps |-> s.steps]

\* the try and catch of lines 906-910
TryLevinson(order, r) ==
    LET res == levinsonForLpc(order, r)
    IN IF res.threw THEN <<>> ELSE res.a

\* the coefficient of line 902
Alpha == Real(97, 100)

\* lines 892-899
Downsampled(input, factor) ==
    LET n == IF (Len(input) + factor - 1) \div factor > 1
             THEN (Len(input) + factor - 1) \div factor ELSE 1
    IN [j \in 1 .. n |-> IF (j - 1) * factor < Len(input) THEN input[(j - 1) * factor + 1]
                                                           ELSE Zero]

\* lines 884-911, for an order that is a number
computeLpcCoefficientsForDebug(input, order, downsampleFactor) ==
    IF order <= 0 \/ Len(input) = 0 THEN <<>>
    ELSE LET factor == IF downsampleFactor <= 0 THEN 1 ELSE downsampleFactor
             data == preprocessSignalForLpc(Downsampled(input, factor), Alpha)
         IN TryLevinson(order, autocorrelateForLpc(data, order))

Loops == {"spectrum", "lpc", "history"}

\* the awaits of startMicInput, startFilePlayback and startBufferPlayback
InputAwaits == {"mic:backend", "mic:getUserMedia", "file:backend", "file:arrayBuffer",
                "file:decode", "file:play"}

VARIABLES
    \* ---- main thread (App.tsx) ----
    mounted,            \* the effect's cleanup has not run
    setupPc,            \* where the asynchronous setup() stands
    wasmRef,            \* wasmRef.current is set
    audioContextRef,    \* "null", or the state last asked of the AudioContext
    analyserRef,        \* analyserRef, dataArrayRef and spectrumRef are set
    workerRef,          \* "null", "alive" or "terminated"
    isFrozenRef,
    analysisRunningRef,
    formantIntervalRef, \* formantIntervalRef.current holds the id of an interval
    intervals,          \* the dispatch intervals that are armed
    rafSpectrumRef,     \* "null"; "live": the id of a pending frame callback;
    rafLpcRef,          \*   "stale": the id of a callback that has run
    rafHistoryRef,
    frames,             \* pending animation-frame callbacks of each loop
    formants,           \* the published formants (React state)
    history,            \* historyRef.current
    error,              \* the error state
    \* ---- input sources (App.tsx) ----
    inputMode,          \* "mic" or "file"
    fileStatus,
    fileError,
    micStreamRef,       \* micStreamRef.current is set
    micSourceRef,
    fileSourceRef,
    fileBufferRef,
    micNodes,           \* microphone source nodes connected to the analyser
    fileNodes,          \* buffer source nodes connected to the analyser
    openStreams,        \* acquired microphone streams whose tracks run
    inputOps,           \* calls of the start functions suspended at an await
    inputCalls,         \* calls of the start functions so far
    failed,             \* the start functions that have reported a failure so far
    retried,            \* a start function was called after a failure, none pending
    \* ---- channels ----
    toWorker,           \* messages posted to the worker, not yet received
    fromWorker,         \* responses posted by the worker, not yet handled
    \* ---- worker (formantWorker.ts) ----
    wasm,               \* the module variable wasm is set
    wasmReady,          \* wasm.default() has completed
    handlers,           \* onmessage invocations suspended at an await
    \* ---- history of the run ----
    posted,             \* calcFormants requests posted so far
    answered,           \* responses posted per request id
    frozenAt,           \* posted at the last freeze transition, -1 before the first
    inserted,           \* every sample pushed to historyRef.current, in order
    lastOp,             \* the handler that ran last
    \* ---- the page script (main.ts) ----
    formantHistory,     \* main.ts:64
    formantLog,         \* every sample pushed to formantHistory, in order
    histSteps,          \* samples added by the history specification
    \* ---- the functions checked on their own ----
    lastResult,         \* the result of the response handled last
    lpcData,            \* the frame a function is given
    lpcOrder,
    lpcFactor,          \* downsampleFactor
    lpcAlpha,           \* the pre-emphasis coefficient
    lpcR,               \* the autocorrelation sequence given to levinsonForLpc
    lpcOut,             \* what the function returned, or the frame as it left it
    lpcRun,             \* levinsonForLpc as it ran: whether it threw, its energies
    lpcCall,            \* the function that has been applied, "none" before
    \* ---- the captured signal ----
    audio,              \* the number of the time-domain frame the analyser holds now
    dataArray,          \* the frame whose samples dataArrayRef.current holds
    \* ---- the LPC envelope (App.tsx) ----
    sampleRate,         \* the sample rate of the device, and of every AudioContext
    lpcPresetRef,       \* lpcPresetRef.current
    lpcPresetId,        \* the lpcPresetId state of the component
    freqBoundsRef,      \* freqBoundsRef.current
    envelope,           \* the envelope drawLPCFilter drew last
    \* ---- the playback of a file (App.tsx) ----
    currentTime,        \* audioContext.currentTime
    filePlaybackStartRef, \* <<>> for null, or <<t>>: the context time of offset 0
    filePosition,       \* the filePosition state, and filePositionRef.current
    playOffsets,        \* the offsets of the startBufferPlayback calls at line 1264
    fileProgressRafRef, \* a tickProgress callback is pending
    sourceEnded,        \* the source of fileSourceRef has played to its end and
                        \*   its ended event is to be delivered to onended
    pendingEnded,       \* ended events to be delivered to the onended of sources
                        \*   fileSourceRef holds no more
    \* ---- the static server (scripts/serve.mjs) ----
    request,            \* the path of the request handled last
    response            \* the status it was answered with, and the file served

schedVars == <<mounted, setupPc, wasmRef, audioContextRef, analyserRef, workerRef,
               isFrozenRef, analysisRunningRef, formantIntervalRef, intervals,
               rafSpectrumRef, rafLpcRef, rafHistoryRef, frames>>
pubVars == <<formants, history, error>>
inputVars == <<inputMode, fileStatus, fileError, micStreamRef, micSourceRef, fileSourceRef,
               fileBufferRef, micNodes, fileNodes, openStreams, inputOps, inputCalls, failed,
               retried>>
playVars == <<currentTime, filePlaybackStartRef, filePosition, playOffsets,
              fileProgressRafRef, sourceEnded, pendingEnded>>
chanVars == <<toWorker, fromWorker>>
workerVars == <<wasm, wasmReady, handlers, answered>>
mainTsVars == <<formantHistory, formantLog, histSteps>>
presetVars == <<sampleRate, lpcPresetRef, lpcPresetId>>
serveVars == <<request, response>>
fnVars == <<lastResult, lpcData, lpcOrder, lpcFactor, lpcAlpha, lpcR, lpcOut, lpcRun, lpcCall,
            serveVars>>
vars == <<schedVars, dataArray, freqBoundsRef, pubVars, chanVars, workerVars, posted, frozenAt, inserted, lastOp,
          mainTsVars, inputVars, playVars, fnVars, audio, presetVars, envelope>>

RequestIds == 0 .. MaxPosted      \* 0 is the init message

(***************************************************************************)
(* Worker responses (WorkerResponse, formantWorker.ts:18-26).              *)
(***************************************************************************)
NoResult == [pitch |-> Undefined, formants |-> <<>>]

InitResponse(ok) ==
    [id |-> 0, type |-> "init", status |-> IF ok THEN "success" ELSE "error",
     hasFormants |-> FALSE, hasPitch |-> FALSE, hasError |-> ~ok, result |-> NoResult]

CalcSuccess(id, res) ==
    [id |-> id, type |-> "calcFormants", status |-> "success",
     hasFormants |-> TRUE, hasPitch |-> TRUE, hasError |-> FALSE, result |-> res]

CalcError(id) ==
    [id |-> id, type |-> "calcFormants", status |-> "error",
     hasFormants |-> FALSE, hasPitch |-> FALSE, hasError |-> TRUE, result |-> NoResult]

(***************************************************************************)
(* The history buffer (App.tsx:1140-1155).                                 *)
(***************************************************************************)
EvictNewest(h) == SubSeq(h, 1, Len(h) - 1)

\* history.shift()
Shift(h) == Tail(h)

NewSampleSameTime(h, sample) ==
    LET lastTime == IF Len(h) > 0 THEN h[Len(h)].time ELSE 0
    IN [time |-> lastTime, f0 |-> sample.f0, f1 |-> sample.f1, f2 |-> sample.f2,
        f3 |-> sample.f3, f4 |-> sample.f4]

\* lines 1141-1152: the sample as it is pushed
NewSample(h, sample) ==
    LET lastTime == IF Len(h) > 0 THEN h[Len(h)].time ELSE 0
        nextTime == IF Len(h) = 0 THEN 0 ELSE lastTime + FORMANT_INTERVAL_MS
    IN [time |-> nextTime, f0 |-> sample.f0, f1 |-> sample.f1, f2 |-> sample.f2,
        f3 |-> sample.f3, f4 |-> sample.f4]

\* lines 1153-1154
addFormantsToHistory(h, sample) ==
    LET pushed == Append(h, NewSample(h, sample))
    IN IF Len(pushed) > MAX_HISTORY THEN Shift(pushed) ELSE pushed

\* main.ts:87-106; now is what performance.now() returns
MainAddFormantsToHistory(h, now, sample) ==
    LET pushed == Append(h, [time |-> now, f0 |-> sample.f0, f1 |-> sample.f1,
                             f2 |-> sample.f2, f3 |-> sample.f3, f4 |-> sample.f4])
    IN IF Len(pushed) > MAX_HISTORY THEN Shift(pushed) ELSE pushed

(***************************************************************************)
(* Initial state: the component has rendered and its mount effect has run: *)
(* the pointer listeners are attached and setup() is suspended at its      *)
(* first await, the dynamic import of the WASM package (App.tsx:1739).     *)
(***************************************************************************)
\* levinsonForLpc has not run
NoRun == [threw |-> FALSE, a |-> <<>>, e |-> Undefined, divisors |-> <<>>, ks |-> <<>>,
          steps |-> <<>>]

\* nothing has been returned yet
NotCalled ==
    /\ lpcOut = <<>>
    /\ lpcRun = NoRun
    /\ lpcCall = "none"

\* no LPC helper is given anything
LpcIdle ==
    /\ lpcData = <<>>
    /\ lpcOrder = 0
    /\ lpcFactor = 1
    /\ lpcAlpha = Alpha
    /\ lpcR = <<>>
    /\ NotCalled

\* no function has been applied on its own
FnIdle ==
    /\ lastResult = NoResult
    /\ LpcIdle

\* the silent frame, and the contents of a newly allocated Float32Array
Silence == 0

\* the sample rate of the default of line 968, and two rates of a device
DefaultRate == 44100
Rates == {DefaultRate, 48000}

\* lines 754-779
LPC_PRESETS ==
    << [id |-> "speech", formantOrder |-> 14, spectrumOrder |-> 16, downsampleFactor |-> 4],
       [id |-> "singer", formantOrder |-> 18, spectrumOrder |-> 20, downsampleFactor |-> 2],
       [id |-> "noisy", formantOrder |-> 10, spectrumOrder |-> 12, downsampleFactor |-> 6] >>

\* lines 966-970, 1221-1225 and 1751-1755, without logRange
FreqBounds(rate) == [minFrequency |-> 20, maxFrequency |-> rate \div 2]

\* line 1482
graphSize == 1024

\* no envelope has been drawn
NoEnvelope ==
    [drawn |-> FALSE,
     evaluator |-> [lpcOrder |-> 0, sampleRate |-> 0, downsampleFactor |-> 0, graphSize |-> 0],
     mapping |-> [maxFrequency |-> 0, graphSize |-> 0, downsampleFactor |-> 0]]

\* the preset of lines 937 and 995, and nothing drawn
NothingDrawn ==
    /\ lpcPresetRef = LPC_PRESETS[1]
    /\ lpcPresetId = "speech"
    /\ envelope = NoEnvelope

\* the server has handled no request
NoRequest == [hasUrl |-> FALSE, path |-> <<>>]
NotAnswered == [status |-> 0, file |-> <<>>, type |-> ""]
ServerIdle == request = NoRequest /\ response = NotAnswered

\* lines 944, 990 and 991: no file has been played
NoPlayback ==
    /\ currentTime = 0
    /\ filePlaybackStartRef = <<>>
    /\ filePosition = 0
    /\ playOffsets = <<>>
    /\ fileProgressRafRef = FALSE
    /\ sourceEnded = FALSE
    /\ pendingEnded = 0

\* the analyser holds silence, and so does the buffer; the device runs at
\* the default rate
Quiet ==
    /\ audio = Silence
    /\ dataArray = Silence
    /\ sampleRate = DefaultRate
    /\ freqBoundsRef = FreqBounds(DefaultRate)
    /\ NothingDrawn
    /\ NoPlayback
    /\ ServerIdle

AppMounted ==
    /\ mounted = TRUE
    /\ setupPc = "import"
    /\ wasmRef = FALSE
    /\ audioContextRef = "null"
    /\ analyserRef = FALSE
    /\ workerRef = "null"
    /\ isFrozenRef = FALSE
    /\ analysisRunningRef = TRUE
    /\ formantIntervalRef = FALSE
    /\ intervals = 0
    /\ rafSpectrumRef = "null"
    /\ rafLpcRef = "null"
    /\ rafHistoryRef = "null"
    /\ frames = [l \in Loops |-> 0]
    /\ formants = [f0 |-> 0, f1 |-> 0, f2 |-> 0, f3 |-> 0, f4 |-> 0]
    /\ history = <<>>
    /\ error = "null"
    /\ toWorker = <<>>
    /\ fromWorker = <<>>
    /\ wasm = FALSE
    /\ wasmReady = FALSE
    /\ handlers = {}
    /\ posted = 0
    /\ answered = [i \in RequestIds |-> 0]
    /\ frozenAt = -1
    /\ inserted = <<>>
    /\ formantHistory = <<>>
    /\ formantLog = <<>>
    /\ histSteps = 0
    /\ inputMode = "mic"
    /\ fileStatus = "idle"
    /\ fileError = "null"
    /\ micStreamRef = FALSE
    /\ micSourceRef = FALSE
    /\ fileSourceRef = FALSE
    /\ fileBufferRef = FALSE
    /\ micNodes = 0
    /\ fileNodes = 0
    /\ openStreams = 0
    /\ inputOps = [p \in InputAwaits |-> 0]
    /\ inputCalls = 0
    /\ failed = {}
    /\ retried = FALSE
    /\ lastOp = "mount"

Init == AppMounted /\ FnIdle /\ Quiet

(***************************************************************************)
(* Starting and stopping the loops (App.tsx:1680-1718).                    *)
(***************************************************************************)
RefOf(l) == CASE l = "spectrum" -> rafSpectrumRef
              [] l = "lpc" -> rafLpcRef
              [] OTHER -> rafHistoryRef

\* cancelAnimationFrame(id) removes the callback only when the id is pending.
Cancel(ref) == IF ref = "live" THEN 1 ELSE 0

\* lines 1682-1685: clearInterval when the ref holds an id
clearInterval(ref, armed) == IF ref THEN armed - 1 ELSE armed

StopKeepsInterval ==
    /\ analysisRunningRef' = FALSE
    /\ formantIntervalRef' = formantIntervalRef
    /\ intervals' = intervals
    /\ rafSpectrumRef' = "null"
    /\ rafLpcRef' = "null"
    /\ rafHistoryRef' = "null"
    /\ frames' = [l \in Loops |-> frames[l] - Cancel(RefOf(l))]

stopAnalysisLoops ==
    /\ analysisRunningRef' = FALSE
    /\ formantIntervalRef' = FALSE
    /\ intervals' = clearInterval(formantIntervalRef, intervals)
    /\ rafSpectrumRef' = "null"
    /\ rafLpcRef' = "null"
    /\ rafHistoryRef' = "null"
    /\ frames' = [l \in Loops |-> frames[l] - Cancel(RefOf(l))]

\* setInterval whatever the ref holds
ArmIntervalAgain(ref, armed) == armed + 1

\* lines 1706-1708: setInterval when the ref is null
ArmInterval(ref, armed) == IF ref THEN armed ELSE armed + 1

\* requestAnimationFrame when the ref is null
Arm(ref) == IF ref = "null" THEN "live" ELSE ref

\* the loops are started whether the scheduler is frozen or not
StartIgnoresFreeze(frozen) ==
    /\ analysisRunningRef' = TRUE
    /\ formantIntervalRef' = TRUE
    /\ intervals' = ArmInterval(formantIntervalRef, intervals)
    /\ rafSpectrumRef' = Arm(rafSpectrumRef)
    /\ rafLpcRef' = Arm(rafLpcRef)
    /\ rafHistoryRef' = Arm(rafHistoryRef)
    /\ frames' = [l \in Loops |-> IF RefOf(l) = "null" THEN frames[l] + 1 ELSE frames[l]]

\* frozen is isFrozenRef.current as the caller has left it
startAnalysisLoops(frozen) ==
    IF frozen
    THEN /\ analysisRunningRef' = FALSE
         /\ UNCHANGED <<formantIntervalRef, intervals, rafSpectrumRef, rafLpcRef, rafHistoryRef, frames>>
    ELSE /\ analysisRunningRef' = TRUE
         /\ formantIntervalRef' = TRUE
         /\ intervals' = ArmInterval(formantIntervalRef, intervals)
         /\ rafSpectrumRef' = Arm(rafSpectrumRef)
         /\ rafLpcRef' = Arm(rafLpcRef)
         /\ rafHistoryRef' = Arm(rafHistoryRef)
         /\ frames' = [l \in Loops |-> IF RefOf(l) = "null" THEN frames[l] + 1 ELSE frames[l]]

loopVars == <<analysisRunningRef, formantIntervalRef, intervals, rafSpectrumRef, rafLpcRef,
              rafHistoryRef, frames>>

(***************************************************************************)
(* toggleAnalysisFreeze (App.tsx:1720-1731), reached from the pointerdown  *)
(* listeners of the two canvases, which the cleanup removes.               *)
(***************************************************************************)
\* suspend() and resume() reject on a closed context and change nothing
Ask(ctx, state) == IF ctx \in {"null", "closed"} THEN ctx ELSE state

toggleAnalysisFreeze ==
    /\ mounted
    /\ LET nextFrozen == ~isFrozenRef
       IN /\ isFrozenRef' = nextFrozen
          /\ IF nextFrozen
             THEN /\ stopAnalysisLoops
                  /\ audioContextRef' = Ask(audioContextRef, "suspended")
             ELSE /\ audioContextRef' = Ask(audioContextRef, "running")
                  /\ startAnalysisLoops(nextFrozen)
    /\ lastOp' = IF isFrozenRef THEN "unfreeze" ELSE "freeze"
    /\ frozenAt' = IF isFrozenRef THEN frozenAt ELSE posted
    /\ UNCHANGED <<mounted, setupPc, wasmRef, analyserRef, dataArray, freqBoundsRef, workerRef>>
    /\ UNCHANGED <<pubVars, chanVars, workerVars, posted, inserted, mainTsVars, fnVars, audio, presetVars, envelope, inputVars, playVars>>

(***************************************************************************)
(* calcFormants, the callback of the dispatch interval (App.tsx:1323-1366) *)
(***************************************************************************)
CalcWithBackpressure ==
    /\ ~(isFrozenRef \/ ~analysisRunningRef)
    /\ analyserRef /\ audioContextRef # "null" /\ workerRef # "null"
    /\ toWorker = <<>> /\ fromWorker = <<>> /\ handlers = {}

\* the guards of lines 1324 and 1329
CalcPosts ==
    /\ ~(isFrozenRef \/ ~analysisRunningRef)
    /\ analyserRef /\ audioContextRef # "null" /\ workerRef # "null"

KeepsBuffer(buf) == buf

\* analyser.getFloatTimeDomainData(buf): what buf holds afterwards
getFloatTimeDomainData(buf) == audio

\* Array.from(buf), line 1359: a new array of the samples buf holds now
ArrayFrom(buf) == buf

calcFormants ==
    /\ intervals > 0
    /\ posted < MaxPosted
    /\ IF CalcPosts
       THEN /\ posted' = posted + 1
            /\ dataArray' = getFloatTimeDomainData(dataArray)
            \* postMessage to a terminated worker is dropped
            /\ toWorker' = IF workerRef = "alive"
                           THEN Append(toWorker, [type |-> "calcFormants", id |-> posted + 1,
                                                  audioData |-> ArrayFrom(dataArray'),
                                                  lpcOrder |-> lpcPresetRef.formantOrder,
                                                  sampleRate |-> sampleRate,
                                                  downsampleFactor |->
                                                      lpcPresetRef.downsampleFactor])
                           ELSE toWorker
       ELSE UNCHANGED <<posted, toWorker, dataArray>>
    /\ lastOp' = "calcFormants"
    /\ UNCHANGED <<schedVars, freqBoundsRef, pubVars, fromWorker, workerVars, frozenAt, inserted, mainTsVars, fnVars, audio, presetVars, envelope, inputVars, playVars>>

(***************************************************************************)
(* The render loops (App.tsx:1368-1678).  A callback that returns at its   *)
(* first guard leaves its ref holding the id of the callback that just ran.*)
(***************************************************************************)
Ran(ref, rest) == IF ref = "live" /\ rest = 0 THEN "stale" ELSE ref

\* the ref and the pending callbacks of loop l after its callback has run
Draw(l, ready, ref) ==
    LET rest == frames[l] - 1
    IN IF ~ready
       THEN [ref |-> Ran(ref, rest), frames |-> [frames EXCEPT ![l] = rest]]
       ELSE IF isFrozenRef \/ ~analysisRunningRef
       THEN [ref |-> "null", frames |-> [frames EXCEPT ![l] = rest]]
       ELSE [ref |-> "live", frames |-> [frames EXCEPT ![l] = rest + 1]]

\* a callback that passes its guards draws, and captures the signal to draw it
Draws(ready) == ready /\ ~(isFrozenRef \/ ~analysisRunningRef)

\* line 1390 captures into the shared buffer
drawSpectrum ==
    /\ frames["spectrum"] > 0
    /\ LET d == Draw("spectrum", analyserRef /\ wasmRef, rafSpectrumRef)
       IN rafSpectrumRef' = d.ref /\ frames' = d.frames
    /\ dataArray' = IF Draws(analyserRef /\ wasmRef) THEN getFloatTimeDomainData(dataArray)
                    ELSE dataArray
    /\ lastOp' = "drawSpectrum"
    /\ UNCHANGED <<mounted, setupPc, wasmRef, audioContextRef, analyserRef, workerRef,
                   isFrozenRef, analysisRunningRef, formantIntervalRef, intervals, rafLpcRef,
                   rafHistoryRef>>
    /\ UNCHANGED <<freqBoundsRef, pubVars, chanVars, workerVars, posted, frozenAt, inserted, mainTsVars, fnVars, audio, presetVars, envelope, inputVars, playVars>>

\* the factor of the preset the component mounted with
StaleFactor(preset) == LPC_PRESETS[1].downsampleFactor

\* the downsampleFactor of line 1500: the one destructured at line 1483
MappingFactor(preset) == preset.downsampleFactor

\* lines 1482-1500: what the evaluator is given, and what maps an index to a
\* frequency
DrawnEnvelope ==
    LET preset == lpcPresetRef
    IN [drawn |-> TRUE,
        evaluator |-> [lpcOrder |-> preset.spectrumOrder,
                       sampleRate |-> IF audioContextRef = "null" THEN DefaultRate
                                      ELSE sampleRate,
                       downsampleFactor |-> preset.downsampleFactor,
                       graphSize |-> graphSize],
        mapping |-> [maxFrequency |-> freqBoundsRef.maxFrequency,
                     graphSize |-> graphSize,
                     downsampleFactor |-> MappingFactor(preset)]]

\* line 1500: the frequency of point i
Freq(i, mapping) ==
    Div(Div(Mul(Real(i, 1), Real(mapping.maxFrequency, 1)), Real(mapping.graphSize, 1)),
        Real(mapping.downsampleFactor, 1))

presetFrame == <<schedVars, dataArray, freqBoundsRef, pubVars, chanVars, workerVars, posted,
                 frozenAt, inserted, mainTsVars, inputVars, playVars, fnVars, audio, sampleRate, envelope>>

\* the ids of the options of the select, lines 2255-2259
PresetIds == {LPC_PRESETS[n].id : n \in 1 .. Len(LPC_PRESETS)}

\* onChange of the preset select, lines 2250-2253
SelectPreset ==
    /\ mounted
    /\ \E id \in PresetIds \ {lpcPresetId} : lpcPresetId' = id
    /\ lastOp' = "selectPreset"
    /\ UNCHANGED <<presetFrame, lpcPresetRef>>

\* lines 1054-1056: LPC_PRESETS.find(...) ?? LPC_PRESETS[0]
PresetOf(id) ==
    IF id \in PresetIds
    THEN LPC_PRESETS[CHOOSE n \in 1 .. Len(LPC_PRESETS) : LPC_PRESETS[n].id = id]
    ELSE LPC_PRESETS[1]

\* the effect of lines 1053-1058, run after lpcPresetId has changed
PresetEffect ==
    /\ mounted
    /\ lpcPresetRef # PresetOf(lpcPresetId)
    /\ lpcPresetRef' = PresetOf(lpcPresetId)
    /\ lastOp' = "presetEffect"
    /\ UNCHANGED <<presetFrame, lpcPresetId>>

\* any id is taken from a snapshot
AnyPresetId(id) == id # "none"

\* lines 2104-2108
ValidPresetId(id) == id = "speech" \/ id = "singer" \/ id = "noisy"

\* settings.lpcPresetId of a snapshot file: a preset, another string, or
\* "none" when the snapshot has no such setting
SnapshotIds == PresetIds \cup {"whisper", "none"}

\* reader.onload of handleImportSnapshot, lines 2072-2110
ImportSnapshot ==
    /\ mounted
    /\ \E id \in SnapshotIds :
          /\ lpcPresetId' = IF ValidPresetId(id) THEN id ELSE lpcPresetId
          /\ lastOp' = "import:" \o id
    /\ UNCHANGED <<presetFrame, lpcPresetRef>>

\* lines 1480-1481 capture into the shared buffer when the LPC envelope is shown
drawLPCFilter ==
    /\ frames["lpc"] > 0
    /\ LET d == Draw("lpc", analyserRef /\ wasmRef, rafLpcRef)
       IN rafLpcRef' = d.ref /\ frames' = d.frames
    /\ \E showLPCSpectrumRef \in BOOLEAN :
          IF Draws(analyserRef /\ wasmRef) /\ showLPCSpectrumRef
          THEN /\ dataArray' = getFloatTimeDomainData(dataArray)
               /\ envelope' = DrawnEnvelope
          ELSE UNCHANGED <<dataArray, envelope>>
    /\ lastOp' = "drawLPCFilter"
    /\ UNCHANGED <<mounted, setupPc, wasmRef, audioContextRef, analyserRef, workerRef,
                   isFrozenRef, analysisRunningRef, formantIntervalRef, intervals, rafSpectrumRef,
                   rafHistoryRef>>
    /\ UNCHANGED <<freqBoundsRef, pubVars, chanVars, workerVars, posted, frozenAt, inserted, mainTsVars, fnVars, audio, presetVars, inputVars, playVars>>

\* historyCanvasRef.current is null once the component has unmounted
drawFormantHistory ==
    /\ frames["history"] > 0
    /\ LET d == Draw("history", mounted, rafHistoryRef)
       IN rafHistoryRef' = d.ref /\ frames' = d.frames
    /\ lastOp' = "drawFormantHistory"
    /\ UNCHANGED <<mounted, setupPc, wasmRef, audioContextRef, analyserRef, dataArray, freqBoundsRef, workerRef,
                   isFrozenRef, analysisRunningRef, formantIntervalRef, intervals, rafSpectrumRef,
                   rafLpcRef>>
    /\ UNCHANGED <<pubVars, chanVars, workerVars, posted, frozenAt, inserted, mainTsVars, fnVars, audio, presetVars, envelope, inputVars, playVars>>

(***************************************************************************)
(* setup() (App.tsx:1733-1829).  It has three awaits: the dynamic import,  *)
(* wasm.default() and audioContext.resume().  Any of them can reject, and  *)
(* the catch block then sets the error state.  No step looks at whether    *)
(* the component is still mounted.                                         *)
(***************************************************************************)
SetupFails ==
    /\ setupPc' = "failed"
    /\ error' = "setup"
    /\ UNCHANGED <<wasmRef, audioContextRef, analyserRef, dataArray, freqBoundsRef, workerRef, toWorker>>

\* line 1739 resolves: wasmRef.current = wasm; wasm.default() is called
SetupImported ==
    /\ setupPc = "import"
    /\ \E ok \in BOOLEAN :
          IF ok
          THEN /\ setupPc' = "wasmInit"
               /\ wasmRef' = TRUE
               /\ UNCHANGED <<audioContextRef, analyserRef, dataArray, freqBoundsRef, workerRef, toWorker, error>>
          ELSE SetupFails
    /\ lastOp' = "setup"
    /\ UNCHANGED <<mounted, isFrozenRef, loopVars, formants, history, fromWorker,
                   workerVars, posted, frozenAt, inserted, mainTsVars, fnVars, audio, presetVars, envelope, inputVars, playVars>>

\* line 1741 resolves: new AudioContext(), audioContext.resume() is called
SetupWasmReady ==
    /\ setupPc = "wasmInit"
    /\ \E ok \in BOOLEAN :
          IF ok
          THEN /\ setupPc' = "resume"
               /\ audioContextRef' = "running"
               /\ UNCHANGED <<wasmRef, analyserRef, dataArray, freqBoundsRef, workerRef, toWorker, error>>
          ELSE SetupFails
    /\ lastOp' = "setup"
    /\ UNCHANGED <<mounted, isFrozenRef, loopVars, formants, history, fromWorker,
                   workerVars, posted, frozenAt, inserted, mainTsVars, fnVars, audio, presetVars, envelope, inputVars, playVars>>

\* lines 1747-1824: the analyser, the buffers, the worker and its init message
SetupCreatesWorker ==
    /\ setupPc' = "done"
    /\ analyserRef' = TRUE
    /\ dataArray' = Silence
    /\ freqBoundsRef' = FreqBounds(sampleRate)
    /\ workerRef' = "alive"
    /\ toWorker' = <<[type |-> "init", id |-> 0]>>
    /\ UNCHANGED <<wasmRef, audioContextRef, error>>

\* line 1745 resolves
SetupResumed ==
    /\ setupPc = "resume"
    /\ \E ok \in BOOLEAN : IF ok THEN SetupCreatesWorker ELSE SetupFails
    /\ lastOp' = "setup"
    /\ UNCHANGED <<mounted, isFrozenRef, loopVars, formants, history, fromWorker,
                   workerVars, posted, frozenAt, inserted, mainTsVars, fnVars, audio, presetVars, envelope, inputVars, playVars>>

(***************************************************************************)
(* worker.onmessage on the main thread (App.tsx:1780-1822).                *)
(***************************************************************************)
Sanitized(res) ==
    [f0 |-> sanitize(res.pitch),
     f1 |-> sanitize(At(res.formants, 1)),
     f2 |-> sanitize(At(res.formants, 2)),
     f3 |-> sanitize(At(res.formants, 3)),
     f4 |-> sanitize(At(res.formants, 4))]

OpOf(m) == "onmessage:" \o m.type \o ":" \o m.status

\* lines 1782-1789
OnInit(m) ==
    IF m.status = "success"
    THEN /\ startAnalysisLoops(isFrozenRef)
         /\ UNCHANGED <<formants, history, error>>
    ELSE /\ error' = "Failed to initialize formant worker"
         /\ UNCHANGED <<loopVars, formants, history>>

ApplyWhenFrozen(m) ==
    /\ formants' = (Sanitized(m.result))
    /\ history' = addFormantsToHistory(history, Sanitized(m.result))
    /\ UNCHANGED <<loopVars, error>>

ApplyPitchOnly(m) ==
    IF isFrozenRef
    THEN UNCHANGED <<loopVars, formants, history, error>>
    ELSE /\ formants' = ([formants EXCEPT !.f0 = sanitize(m.result.pitch)])
         /\ history' = addFormantsToHistory(history, Sanitized(m.result))
         /\ UNCHANGED <<loopVars, error>>

\* lines 1797-1815
OnCalcSuccess(m) ==
    IF isFrozenRef
    THEN UNCHANGED <<loopVars, formants, history, error>>
    ELSE /\ formants' = (Sanitized(m.result))
         /\ history' = addFormantsToHistory(history, Sanitized(m.result))
         /\ UNCHANGED <<loopVars, error>>

\* lines 1816-1821
OnCalcError(m) ==
    /\ error' = "Formant detection failed"
    /\ UNCHANGED <<loopVars, formants, history>>

\* the response is one the handler is to apply: lines 1791-1799
Applies(m) ==
    /\ m.type = "calcFormants" /\ m.status = "success" /\ m.hasFormants /\ m.hasPitch
    /\ ~isFrozenRef

OnMessage ==
    /\ workerRef = "alive"
    /\ fromWorker # <<>>
    /\ LET m == Head(fromWorker)
       IN /\ IF m.type = "init" THEN OnInit(m)
             ELSE IF m.status = "success" /\ m.hasFormants /\ m.hasPitch THEN OnCalcSuccess(m)
             ELSE IF m.status = "error" THEN OnCalcError(m)
             ELSE UNCHANGED <<loopVars, formants, history, error>>
          /\ inserted' = IF Applies(m)
                          THEN Append(inserted, NewSample(history, Sanitized(m.result)))
                          ELSE inserted
          /\ lastOp' = OpOf(m)
    /\ fromWorker' = Tail(fromWorker)
    /\ UNCHANGED <<mounted, setupPc, wasmRef, audioContextRef, analyserRef, dataArray, freqBoundsRef, workerRef,
                   isFrozenRef, toWorker, workerVars, posted, frozenAt, mainTsVars, fnVars, audio, presetVars, envelope, inputVars, playVars>>

(***************************************************************************)
(* The input sources (App.tsx:1176-1320).  Each start function is async:   *)
(* it runs to its first await in the task of the event that called it, and *)
(* each later piece runs when the awaited promise settles.                 *)
(***************************************************************************)
\* lines 1181-1208, what is left of each resource
\* the duration of the file that is played, buffer.duration
Duration == 2

\* Math.min
Min(a, b) == IF a < b THEN a ELSE b

StoppedFileNodes == IF fileSourceRef THEN fileNodes - 1 ELSE fileNodes
StoppedMicNodes == IF micSourceRef THEN micNodes - 1 ELSE micNodes
StoppedStreams == IF micStreamRef THEN openStreams - 1 ELSE openStreams

stopCurrentInput ==
    /\ fileProgressRafRef' = FALSE
    /\ sourceEnded' = FALSE
    /\ filePlaybackStartRef' = <<>>
    /\ fileSourceRef' = FALSE
    /\ fileNodes' = StoppedFileNodes
    /\ micSourceRef' = FALSE
    /\ micNodes' = StoppedMicNodes
    /\ micStreamRef' = FALSE
    /\ openStreams' = StoppedStreams

\* lines 1213-1228, up to the await of resume()
ensureAudioBackend ==
    /\ audioContextRef' = IF audioContextRef = "null" THEN "running"
                          ELSE Ask(audioContextRef, "running")
    /\ analyserRef' = (analyserRef \/ audioContextRef = "null")
    /\ dataArray' = IF audioContextRef = "null" THEN Silence ELSE dataArray
    /\ freqBoundsRef' = IF audioContextRef = "null" THEN FreqBounds(sampleRate)
                        ELSE freqBoundsRef

Suspend(pc) == inputOps' = [inputOps EXCEPT ![pc] = @ + 1]
Move(from, to) == inputOps' = [[inputOps EXCEPT ![from] = @ - 1] EXCEPT ![to] = @ + 1]
Finish(pc) == inputOps' = [inputOps EXCEPT ![pc] = @ - 1]

inputFrame == <<mounted, setupPc, wasmRef, workerRef, isFrozenRef, loopVars, formants, history,
                chanVars, workerVars, posted, frozenAt, inserted, mainTsVars, fnVars, audio, presetVars, envelope>>

NonePending == \A pc \in InputAwaits : inputOps[pc] = 0
Called == retried' = (retried \/ (failed # {} /\ NonePending))

\* handleUseMic and startOnGesture call startMicInput: line 1235
startMicInput ==
    /\ mounted
    /\ inputCalls < MaxInputCalls
    /\ inputCalls' = inputCalls + 1
    /\ ensureAudioBackend
    /\ Suspend("mic:backend")
    /\ lastOp' = "startMicInput"
    /\ Called
    /\ UNCHANGED <<inputFrame, error, inputMode, fileStatus, fileError, micStreamRef,
                   micSourceRef, fileSourceRef, fileBufferRef, micNodes, fileNodes,
                   openStreams, failed>>
    /\ UNCHANGED playVars

\* lines 1236-1243: ensureAudioBackend has returned, getUserMedia is called
MicBackendReady ==
    /\ inputOps["mic:backend"] > 0
    /\ IF audioContextRef = "null" \/ ~analyserRef
       THEN /\ Finish("mic:backend")
            /\ lastOp' = "startMicInput:returned"
            /\ UNCHANGED <<fileStatus, fileError, micStreamRef, micSourceRef, fileSourceRef,
                           micNodes, fileNodes, openStreams, fileProgressRafRef, sourceEnded,
                           filePlaybackStartRef>>
       ELSE /\ stopCurrentInput
            /\ fileStatus' = "idle"
            /\ fileError' = "null"
            /\ Move("mic:backend", "mic:getUserMedia")
            /\ lastOp' = "startMicInput:getUserMedia"
    /\ UNCHANGED <<inputFrame, audioContextRef, analyserRef, dataArray, freqBoundsRef, error, inputMode, fileBufferRef,
                   inputCalls, failed, retried>>
    /\ UNCHANGED <<currentTime, filePosition, playOffsets, pendingEnded>>

\* the catch block of lines 1255-1259
MicFailed ==
    /\ error' = "getUserMedia failed"
    /\ fileStatus' = "error"
    /\ failed' = failed \cup {"mic"}
    /\ lastOp' = "startMicInput:failed"
    /\ UNCHANGED <<micStreamRef, micSourceRef, micNodes, openStreams, inputMode, loopVars>>

\* lines 1250-1254
MicConnected ==
    /\ micStreamRef' = TRUE
    /\ openStreams' = openStreams + 1
    /\ micSourceRef' = TRUE
    /\ micNodes' = micNodes + 1
    /\ inputMode' = "mic"
    /\ lastOp' = "startMicInput:connected"
    /\ UNCHANGED <<error, fileStatus, failed, loopVars>>

\* getUserMedia resolves or rejects
MicAcquired ==
    /\ inputOps["mic:getUserMedia"] > 0
    /\ Finish("mic:getUserMedia")
    /\ \E ok \in BOOLEAN : IF ok THEN MicConnected ELSE MicFailed
    /\ UNCHANGED <<mounted, setupPc, wasmRef, workerRef, isFrozenRef, formants, history,
                   chanVars, workerVars, posted, frozenAt, inserted, mainTsVars, fnVars, audio, presetVars, envelope>>
    /\ UNCHANGED <<audioContextRef, analyserRef, dataArray, freqBoundsRef, fileError, fileSourceRef, fileBufferRef,
                   fileNodes, inputCalls, retried>>
    /\ UNCHANGED playVars

\* handleFileSelect calls startFilePlayback: line 1301
startFilePlayback ==
    /\ mounted
    /\ inputCalls < MaxInputCalls
    /\ inputCalls' = inputCalls + 1
    /\ ensureAudioBackend
    /\ Suspend("file:backend")
    /\ lastOp' = "startFilePlayback"
    /\ Called
    /\ UNCHANGED <<inputFrame, error, inputMode, fileStatus, fileError, micStreamRef,
                   micSourceRef, fileSourceRef, fileBufferRef, micNodes, fileNodes,
                   openStreams, failed>>
    /\ UNCHANGED playVars

\* lines 1302-1308: file.arrayBuffer() is called
FileBackendReady ==
    /\ inputOps["file:backend"] > 0
    /\ IF audioContextRef = "null"
       THEN /\ Finish("file:backend")
            /\ lastOp' = "startFilePlayback:returned"
            /\ UNCHANGED <<fileError, error, fileStatus>>
       ELSE /\ fileError' = "null"
            /\ error' = "null"
            /\ fileStatus' = "loading"
            /\ Move("file:backend", "file:arrayBuffer")
            /\ lastOp' = "startFilePlayback:loading"
    /\ UNCHANGED <<inputFrame, audioContextRef, analyserRef, dataArray, freqBoundsRef, inputMode, micStreamRef,
                   micSourceRef, fileSourceRef, fileBufferRef, micNodes, fileNodes,
                   openStreams, inputCalls, failed, retried>>
    /\ UNCHANGED playVars

FileFailureSetsError ==
    /\ error' = "Could not load file"
    /\ fileStatus' = "error"
    /\ failed' = failed \cup {"file"}
    /\ lastOp' = "startFilePlayback:failed"
    /\ UNCHANGED <<fileError, audioContextRef, analyserRef, dataArray, freqBoundsRef, fileBufferRef>>

\* the catch block of lines 1315-1319
FileFailed ==
    /\ fileError' = "Could not load file"
    /\ fileStatus' = "error"
    /\ failed' = failed \cup {"file"}
    /\ lastOp' = "startFilePlayback:failed"
    /\ UNCHANGED <<error, audioContextRef, analyserRef, dataArray, freqBoundsRef, fileBufferRef>>

\* line 1308 resolves or rejects; decodeAudioData is called (line 1309)
FileRead ==
    /\ inputOps["file:arrayBuffer"] > 0
    /\ \E ok \in BOOLEAN :
          IF ok
          THEN /\ Move("file:arrayBuffer", "file:decode")
               /\ lastOp' = "startFilePlayback:decoding"
               /\ UNCHANGED <<fileError, fileStatus, failed, error, audioContextRef,
                              analyserRef, dataArray, freqBoundsRef, fileBufferRef>>
          ELSE /\ Finish("file:arrayBuffer")
               /\ FileFailed
    /\ UNCHANGED <<inputFrame, inputMode, micStreamRef, micSourceRef, fileSourceRef, micNodes,
                   fileNodes, openStreams, inputCalls, retried>>
    /\ UNCHANGED playVars

\* line 1309 resolves or rejects; startBufferPlayback is called (line 1314)
\* and runs to its await of ensureAudioBackend (line 1264)
FileDecoded ==
    /\ inputOps["file:decode"] > 0
    /\ \E ok \in BOOLEAN :
          IF ok
          THEN /\ fileBufferRef' = TRUE
               /\ ensureAudioBackend
               /\ Move("file:decode", "file:play")
               /\ playOffsets' = Append(playOffsets, 0)
               /\ lastOp' = "startFilePlayback:decoded"
               /\ UNCHANGED <<fileError, fileStatus, failed, error>>
          ELSE /\ Finish("file:decode")
               /\ FileFailed
               /\ UNCHANGED playOffsets
    /\ UNCHANGED <<inputFrame, inputMode, micStreamRef, micSourceRef, fileSourceRef, micNodes,
                   fileNodes, openStreams, inputCalls, retried>>
    /\ UNCHANGED <<currentTime, filePlaybackStartRef, filePosition, fileProgressRafRef,
                   sourceEnded, pendingEnded>>

\* startBufferPlayback, lines 1265-1295
BufferBackendReady ==
    /\ inputOps["file:play"] > 0
    /\ Finish("file:play")
    /\ playOffsets' = Tail(playOffsets)
    /\ IF audioContextRef = "null" \/ ~analyserRef
       THEN /\ lastOp' = "startBufferPlayback:returned"
            /\ UNCHANGED <<fileStatus, inputMode, micStreamRef, micSourceRef, fileSourceRef,
                           micNodes, fileNodes, openStreams, filePlaybackStartRef,
                           filePosition, fileProgressRafRef, sourceEnded>>
       ELSE /\ sourceEnded' = FALSE
            /\ filePlaybackStartRef' = <<currentTime - Head(playOffsets)>>
            /\ filePosition' = Min(Head(playOffsets), Duration)
            /\ fileProgressRafRef' = TRUE
            /\ micSourceRef' = FALSE
            /\ micNodes' = StoppedMicNodes
            /\ micStreamRef' = FALSE
            /\ openStreams' = StoppedStreams
            /\ fileSourceRef' = TRUE
            /\ fileNodes' = StoppedFileNodes + 1
            /\ inputMode' = "file"
            /\ fileStatus' = "playing"
            /\ lastOp' = "startBufferPlayback:playing"
    /\ UNCHANGED <<inputFrame, audioContextRef, analyserRef, dataArray, freqBoundsRef, error, fileError, fileBufferRef,
                   inputCalls, failed, retried>>
    /\ UNCHANGED <<currentTime, pendingEnded>>

(***************************************************************************)
(* Pausing and resuming the file (App.tsx:1973-2009, 1279-1295).  Times    *)
(* are whole seconds of audioContext.currentTime.  fileStatusRef.current   *)
(* and filePositionRef.current are assigned from the states by the effects *)
(* of lines 1029-1037, which have run when the next handler starts: the    *)
(* model reads the states.                                                 *)
(***************************************************************************)
\* the context time the clock is followed to
MaxTime == 4

playFrame == <<inputFrame, analyserRef, dataArray, freqBoundsRef, error, inputMode, fileError,
               micStreamRef, micSourceRef, fileBufferRef, micNodes, openStreams, inputCalls,
               failed, retried>>

\* the clock of a running AudioContext advances
Tick ==
    /\ audioContextRef = "running"
    /\ currentTime < MaxTime
    /\ currentTime' = currentTime + 1
    /\ lastOp' = "tick"
    /\ UNCHANGED <<playFrame, audioContextRef, fileStatus, fileSourceRef, fileNodes, inputOps,
                   filePlaybackStartRef, filePosition, playOffsets, fileProgressRafRef,
                   sourceEnded, pendingEnded>>

\* lines 1287 and 1994: audioContext.currentTime - filePlaybackStartRef.current
Elapsed == currentTime - filePlaybackStartRef[1]

\* the source of fileSourceRef has played the buffer to its end: its ended
\* event is queued
SourceFinishes ==
    /\ fileSourceRef
    /\ ~sourceEnded
    /\ filePlaybackStartRef # <<>>
    /\ Elapsed >= Duration
    /\ sourceEnded' = TRUE
    /\ lastOp' = "sourceFinished"
    /\ UNCHANGED <<playFrame, audioContextRef, fileStatus, fileSourceRef, fileNodes, inputOps,
                   currentTime, filePlaybackStartRef, filePosition, playOffsets,
                   fileProgressRafRef, pendingEnded>>

\* source.onended, lines 1279-1283, and the effect of lines 1086-1090
FileEnded ==
    /\ sourceEnded \/ pendingEnded > 0
    /\ IF sourceEnded
       THEN sourceEnded' = FALSE /\ UNCHANGED pendingEnded
       ELSE pendingEnded' = pendingEnded - 1 /\ UNCHANGED sourceEnded
    /\ fileStatus' = "ended"
    /\ filePlaybackStartRef' = <<>>
    /\ filePosition' = Duration
    /\ fileProgressRafRef' = FALSE
    /\ lastOp' = "onended"
    /\ UNCHANGED <<playFrame, audioContextRef, fileSourceRef, fileNodes, inputOps, currentTime,
                   playOffsets>>

\* tickProgress, lines 1285-1294, with isScrubbingRef.current false
tickProgress ==
    /\ fileProgressRafRef
    /\ IF filePlaybackStartRef = <<>>
       THEN /\ fileProgressRafRef' = FALSE
            /\ UNCHANGED filePosition
       ELSE /\ filePosition' = Min(Elapsed, Duration)
            /\ fileProgressRafRef' = (Elapsed < Duration /\ fileStatus # "ended")
    /\ lastOp' = "tickProgress"
    /\ UNCHANGED <<playFrame, audioContextRef, fileStatus, fileSourceRef, fileNodes, inputOps,
                   currentTime, filePlaybackStartRef, playOffsets, sourceEnded, pendingEnded>>

\* stop() with onended still set: the ended event of the source will call it
StopsAttached(attached, pending) == IF attached THEN pending + 1 ELSE pending

\* lines 1980-1981: onended = null, then stop(): the events that will reach
\* an onended handler afterwards
DetachThenStop(attached, pending) == pending

\* lines 2003-2007: where handleTogglePlay restarts the file
RestartOffset == IF fileStatus = "ended" THEN 0 ELSE Min(filePosition, Duration)

\* lines 1978-2002: the file is playing; the stopped source stays connected
\* and plays no more
PausePlayback ==
    /\ fileSourceRef' = FALSE
    /\ fileNodes' = StoppedFileNodes
    /\ sourceEnded' = FALSE
    /\ pendingEnded' = DetachThenStop(fileSourceRef /\ filePlaybackStartRef # <<>>,
                                      pendingEnded)
    /\ fileProgressRafRef' = FALSE
    /\ filePosition' = IF audioContextRef # "null" /\ filePlaybackStartRef # <<>>
                       THEN Min(Elapsed, Duration)
                       ELSE filePosition
    /\ filePlaybackStartRef' = <<>>
    /\ fileStatus' = "paused"
    /\ lastOp' = "togglePlay:paused"
    /\ UNCHANGED <<audioContextRef, analyserRef, dataArray, freqBoundsRef, inputOps,
                   playOffsets>>

\* lines 2004-2008: startBufferPlayback(buffer, offset) runs to its await of
\* ensureAudioBackend (line 1264)
ResumePlayback ==
    /\ Len(playOffsets) < MaxInputCalls
    /\ ensureAudioBackend
    /\ Suspend("file:play")
    /\ playOffsets' = Append(playOffsets, RestartOffset)
    /\ lastOp' = "togglePlay:start"
    /\ UNCHANGED <<fileStatus, fileSourceRef, fileNodes, filePlaybackStartRef, filePosition,
                   fileProgressRafRef, sourceEnded, pendingEnded>>

\* handleTogglePlay, lines 1973-2009, with a decoded file (line 1975)
handleTogglePlay ==
    /\ mounted
    /\ fileBufferRef
    /\ IF fileStatus = "playing" THEN PausePlayback ELSE ResumePlayback
    /\ UNCHANGED <<inputFrame, error, inputMode, fileError, micStreamRef, micSourceRef,
                   fileBufferRef, micNodes, openStreams, inputCalls, failed, retried,
                   currentTime>>

(***************************************************************************)
(* The cleanup of the mount effect (App.tsx:1833-1846).  terminate() ends  *)
(* the worker: its pending tasks and undelivered messages are discarded.   *)
(***************************************************************************)
Cleanup ==
    /\ mounted
    /\ mounted' = FALSE
    /\ stopAnalysisLoops
    /\ workerRef' = IF workerRef = "null" THEN "null" ELSE "terminated"
    /\ audioContextRef' = IF audioContextRef = "null" THEN "null" ELSE "closed"
    /\ toWorker' = <<>>
    /\ fromWorker' = <<>>
    /\ handlers' = {}
    /\ stopCurrentInput
    /\ lastOp' = "cleanup"
    /\ UNCHANGED <<setupPc, wasmRef, analyserRef, dataArray, freqBoundsRef, isFrozenRef, pubVars, wasm, wasmReady,
                   answered, posted, frozenAt, inserted, mainTsVars, fnVars, audio, presetVars, envelope, inputMode, fileStatus,
                   fileError, fileBufferRef, inputOps, inputCalls, failed, retried>>
    /\ UNCHANGED <<currentTime, filePosition, playOffsets, pendingEnded>>

(***************************************************************************)
(* The worker (formantWorker.ts).  onmessage is async: an invocation that  *)
(* finds wasm unset suspends at the import (line 35) and again at          *)
(* wasm.default() (line 36); one that finds it set runs to its end in the  *)
(* task that received the message.                                         *)
(***************************************************************************)
Post(r) ==
    /\ fromWorker' = Append(fromWorker, r)
    /\ answered' = [answered EXCEPT ![r.id] = @ + 1]

RespondSuccessThenError(h, ok, res) ==
    IF h.type = "init"
    THEN Post(InitResponse(ok))
    ELSE /\ fromWorker' = IF ok THEN fromWorker \o <<CalcSuccess(h.id, res), CalcError(h.id)>>
                          ELSE Append(fromWorker, CalcError(h.id))
         /\ answered' = [answered EXCEPT ![h.id] = @ + (IF ok THEN 2 ELSE 1)]

\* The one postMessage of a handler: lines 46-55 (init) and 72-83
\* (calcFormants); ok says whether the try block ran to its end, res is what
\* the two analysis functions returned.
Respond(h, ok, res) ==
    IF h.type = "init"
    THEN Post(InitResponse(ok))
    ELSE Post(IF ok THEN CalcSuccess(h.id, res) ELSE CalcError(h.id))

\* lines 62-70: the analysis functions throw unless the module is initialised,
\* and can throw (a Rust panic) when it is
Analyse(h, ready) ==
    \E ok \in BOOLEAN, res \in WorkerResults :
        Respond(h, IF h.type = "init" THEN TRUE ELSE ok /\ ready, res)

\* ensureWasmLoaded, line 33
WasmLoaded == wasm

WorkerOnMessage ==
    /\ workerRef = "alive"
    /\ toWorker # <<>>
    /\ LET m == Head(toWorker)
       IN IF WasmLoaded
          THEN /\ Analyse(m, wasmReady)
               /\ UNCHANGED handlers
          ELSE /\ handlers' = handlers \cup {[id |-> m.id, type |-> m.type, pc |-> "import"]}
               /\ UNCHANGED <<fromWorker, answered>>
    /\ toWorker' = Tail(toWorker)
    /\ lastOp' = "worker:onmessage"
    /\ UNCHANGED <<schedVars, dataArray, freqBoundsRef, pubVars, wasm, wasmReady, posted, frozenAt, inserted, mainTsVars, fnVars, audio, presetVars, envelope, inputVars, playVars>>

\* line 35 resolves or rejects
WorkerImported ==
    /\ workerRef = "alive"
    /\ \E h \in handlers :
          /\ h.pc = "import"
          /\ \E ok \in BOOLEAN :
                IF ok
                THEN /\ wasm' = TRUE
                     /\ handlers' = (handlers \ {h}) \cup {[h EXCEPT !.pc = "default"]}
                     /\ UNCHANGED <<fromWorker, answered>>
                ELSE /\ handlers' = handlers \ {h}
                     /\ Respond(h, FALSE, NoResult)
                     /\ UNCHANGED wasm
    /\ lastOp' = "worker:import"
    /\ UNCHANGED <<schedVars, dataArray, freqBoundsRef, pubVars, toWorker, wasmReady, posted, frozenAt, inserted, mainTsVars, fnVars, audio, presetVars, envelope, inputVars, playVars>>

\* line 36 resolves or rejects
WorkerInitialised ==
    /\ workerRef = "alive"
    /\ \E h \in handlers :
          /\ h.pc = "default"
          /\ handlers' = handlers \ {h}
          /\ \E ok \in BOOLEAN :
                IF ok
                THEN /\ wasmReady' = TRUE
                     /\ Analyse(h, TRUE)
                ELSE /\ Respond(h, FALSE, NoResult)
                     /\ UNCHANGED wasmReady
    /\ lastOp' = "worker:default"
    /\ UNCHANGED <<schedVars, dataArray, freqBoundsRef, pubVars, toWorker, wasm, posted, frozenAt, inserted, mainTsVars, fnVars, audio, presetVars, envelope, inputVars, playVars>>

(***************************************************************************)
(* The scheduler and its worker.                                           *)
(***************************************************************************)
Next ==
    \/ SetupImported
    \/ SetupWasmReady
    \/ SetupResumed
    \/ toggleAnalysisFreeze
    \/ calcFormants
    \/ drawSpectrum
    \/ drawLPCFilter
    \/ drawFormantHistory
    \/ OnMessage
    \/ Cleanup
    \/ WorkerOnMessage
    \/ WorkerImported
    \/ WorkerInitialised

Spec == Init /\ [][Next]_vars

(***************************************************************************)
(* The scheduler together with the input sources.                          *)
(***************************************************************************)
NextInput ==
    \/ SetupImported
    \/ SetupWasmReady
    \/ SetupResumed
    \/ WorkerOnMessage
    \/ WorkerImported
    \/ WorkerInitialised
    \/ OnMessage
    \/ calcFormants
    \/ startMicInput
    \/ MicBackendReady
    \/ MicAcquired
    \/ startFilePlayback
    \/ FileBackendReady
    \/ FileRead
    \/ FileDecoded
    \/ BufferBackendReady

SpecInput == Init /\ [][NextInput]_vars

(***************************************************************************)
(* The history buffers on their own.  The buffer starts empty, or filled   *)
(* by earlier responses up to just below or up to its capacity, and        *)
(* samples are then added as the response handlers add them, between       *)
(* freezes and resumes of the analysis.                                    *)
(***************************************************************************)
\* insertions of one behaviour after the initial filling
MaxInserts == 3

\* the values a response can publish
HistorySamples ==
    {Sanitized(r) : r \in WorkerResults} \cup {[f0 |-> 0, f1 |-> 0, f2 |-> 0, f3 |-> 0, f4 |-> 0]}

Filler == [f0 |-> 220, f1 |-> 300, f2 |-> 2300, f3 |-> 3000, f4 |-> 3700]

\* n samples added to the empty buffer of App.tsx
Filled(n) ==
    [i \in 1 .. n |-> [time |-> (i - 1) * FORMANT_INTERVAL_MS, f0 |-> Filler.f0,
                       f1 |-> Filler.f1, f2 |-> Filler.f2, f3 |-> Filler.f3,
                       f4 |-> Filler.f4]]

\* n samples added to the empty buffer of main.ts, one per millisecond
MainFilled(n) ==
    [i \in 1 .. n |-> [time |-> i, f0 |-> Filler.f0, f1 |-> Filler.f1, f2 |-> Filler.f2,
                       f3 |-> Filler.f3, f4 |-> Filler.f4]]

\* the refs and the worker after the worker has answered init with success
StartedScheduler ==
    /\ mounted = TRUE
    /\ setupPc = "done"
    /\ wasmRef = TRUE
    /\ audioContextRef = "running"
    /\ analyserRef = TRUE
    /\ workerRef = "alive"
    /\ isFrozenRef = FALSE
    /\ analysisRunningRef = TRUE
    /\ formantIntervalRef = TRUE
    /\ intervals = 1
    /\ rafSpectrumRef = "live"
    /\ rafLpcRef = "live"
    /\ rafHistoryRef = "live"
    /\ frames = [l \in Loops |-> 1]
    /\ error = "null"
    /\ wasm = TRUE
    /\ wasmReady = TRUE
    /\ handlers = {}
    /\ frozenAt = -1
    /\ histSteps = 0
    /\ inputMode = "mic"
    /\ fileStatus = "idle"
    /\ fileError = "null"
    /\ micStreamRef = FALSE
    /\ micSourceRef = FALSE
    /\ fileSourceRef = FALSE
    /\ fileBufferRef = FALSE
    /\ micNodes = 0
    /\ fileNodes = 0
    /\ openStreams = 0
    /\ inputOps = [p \in InputAwaits |-> 0]
    /\ inputCalls = 0
    /\ failed = {}
    /\ retried = FALSE

AppStarted ==
    /\ StartedScheduler
    /\ toWorker = <<>>
    /\ fromWorker = <<>>
    /\ posted = 0
    /\ answered = [i \in RequestIds |-> IF i = 0 THEN 1 ELSE 0]
    /\ lastOp = "onmessage:init:success"

InitHistory ==
    /\ AppStarted
    /\ FnIdle
    /\ Quiet
    /\ \E n \in {0, MAX_HISTORY - 1, MAX_HISTORY} :
          /\ history = Filled(n)
          /\ inserted = Filled(n)
          /\ formants = IF n = 0 THEN [f0 |-> 0, f1 |-> 0, f2 |-> 0, f3 |-> 0, f4 |-> 0]
                        ELSE Filler
          /\ formantHistory = MainFilled(n)
          /\ formantLog = MainFilled(n)

\* the success branch of worker.onmessage (App.tsx:1800-1815) for one response;
\* it is reached only when the scheduler is not frozen (line 1797)
AddSample ==
    /\ ~isFrozenRef
    /\ histSteps < MaxInserts
    /\ histSteps' = histSteps + 1
    /\ \E sample \in HistorySamples :
          /\ formants' = sample
          /\ history' = addFormantsToHistory(history, sample)
          /\ inserted' = Append(inserted, NewSample(history, sample))
    /\ lastOp' = "onmessage:calcFormants:success"
    /\ UNCHANGED <<schedVars, dataArray, freqBoundsRef, error, chanVars, workerVars, posted, frozenAt, formantHistory,
                   formantLog, inputVars, playVars, fnVars, audio, presetVars, envelope>>

\* the success branch of formantWorker.onmessage of main.ts (line 243);
\* performance.now() does not go back
MainAddSample ==
    /\ histSteps < MaxInserts
    /\ histSteps' = histSteps + 1
    /\ \E sample \in HistorySamples, dt \in {0, 1} :
          LET last == IF formantLog = <<>> THEN 0 ELSE formantLog[Len(formantLog)].time
              new == [time |-> last + dt, f0 |-> sample.f0, f1 |-> sample.f1,
                      f2 |-> sample.f2, f3 |-> sample.f3, f4 |-> sample.f4]
          IN /\ formantHistory' = MainAddFormantsToHistory(formantHistory, last + dt, sample)
             /\ formantLog' = Append(formantLog, new)
    /\ lastOp' = "main:onmessage"
    /\ UNCHANGED <<schedVars, dataArray, freqBoundsRef, pubVars, chanVars, workerVars, posted, frozenAt, inserted,
                   inputVars, playVars, fnVars, audio, presetVars, envelope>>

NextHistory == AddSample \/ MainAddSample \/ toggleAnalysisFreeze

SpecHistory == InitHistory /\ [][NextHistory]_vars

(***************************************************************************)
(* The shared capture buffer.  The analysis runs, the signal in the        *)
(* analyser moves on between tasks, and the dispatch callback and the two  *)
(* render loops that capture all capture into dataArrayRef.current.        *)
(***************************************************************************)
\* frames the analyser moves through in one behaviour
MaxAudio == 3

\* the audio thread renders: the analyser holds the next frame
AudioArrives ==
    /\ audio < MaxAudio
    /\ audio' = audio + 1
    /\ lastOp' = "audio"
    /\ UNCHANGED <<schedVars, dataArray, freqBoundsRef, pubVars, chanVars, workerVars, posted, frozenAt,
                   inserted, mainTsVars, inputVars, playVars, fnVars, presetVars, envelope>>

InitCapture == AppStarted /\ FnIdle /\ Quiet /\ formants = [f0 |-> 0, f1 |-> 0, f2 |-> 0, f3 |-> 0, f4 |-> 0]
               /\ history = <<>> /\ inserted = <<>> /\ formantHistory = <<>> /\ formantLog = <<>>

NextCapture ==
    \/ AudioArrives
    \/ calcFormants
    \/ drawSpectrum
    \/ drawLPCFilter
    \/ WorkerOnMessage

SpecCapture == InitCapture /\ [][NextCapture]_vars

(***************************************************************************)
(* The LPC envelope.  The analysis runs on a device of either rate; the    *)
(* render loop draws while the presets are selected.                       *)
(***************************************************************************)
InitEnvelope ==
    /\ AppStarted
    /\ FnIdle
    /\ audio = Silence
    /\ dataArray = Silence
    /\ sampleRate \in Rates
    /\ freqBoundsRef = FreqBounds(sampleRate)
    /\ NothingDrawn
    /\ NoPlayback
    /\ ServerIdle
    /\ formants = [f0 |-> 0, f1 |-> 0, f2 |-> 0, f3 |-> 0, f4 |-> 0]
    /\ history = <<>> /\ inserted = <<>> /\ formantHistory = <<>> /\ formantLog = <<>>

NextEnvelope ==
    \/ drawLPCFilter
    \/ SelectPreset
    \/ PresetEffect

SpecEnvelope == InitEnvelope /\ [][NextEnvelope]_vars

(***************************************************************************)
(* The presets.  The analysis runs; the interval dispatches while the user *)
(* selects presets and imports snapshots.                                  *)
(***************************************************************************)
InitPreset ==
    /\ AppStarted
    /\ FnIdle
    /\ Quiet
    /\ formants = [f0 |-> 0, f1 |-> 0, f2 |-> 0, f3 |-> 0, f4 |-> 0]
    /\ history = <<>> /\ inserted = <<>> /\ formantHistory = <<>> /\ formantLog = <<>>

NextPreset ==
    \/ calcFormants
    \/ SelectPreset
    \/ PresetEffect
    \/ ImportSnapshot

SpecPreset == InitPreset /\ [][NextPreset]_vars

(***************************************************************************)
(* The playback.  The analysis runs; the user selects files, pauses and    *)
(* resumes them while the clock of the context advances.                   *)
(***************************************************************************)
InitPlayback ==
    /\ AppStarted
    /\ FnIdle
    /\ Quiet
    /\ formants = [f0 |-> 0, f1 |-> 0, f2 |-> 0, f3 |-> 0, f4 |-> 0]
    /\ history = <<>> /\ inserted = <<>> /\ formantHistory = <<>> /\ formantLog = <<>>

NextPlayback ==
    \/ startFilePlayback
    \/ FileBackendReady
    \/ FileRead
    \/ FileDecoded
    \/ BufferBackendReady
    \/ handleTogglePlay
    \/ Tick
    \/ SourceFinishes
    \/ FileEnded
    \/ tickProgress

SpecPlayback == InitPlayback /\ [][NextPlayback]_vars

(***************************************************************************)
(* The response handler on every kind of value a response can carry.  The  *)
(* scheduler is running, one request has been answered with success, and   *)
(* worker.onmessage handles the response.                                  *)
(***************************************************************************)
\* what the elements of formants and pitch can be: Float64Array elements and
\* numbers of the WASM package
RawNumbers == {Num(440), Num(0), Num(-1), NaN, PosInf, NegInf}

\* message.formants: empty, short, or with the four formants
RawFormantArrays ==
    {<<>>} \cup {<<a>> : a \in RawNumbers} \cup {<<a, b, a, b>> : a, b \in RawNumbers}

RawResults == {[pitch |-> p, formants |-> fs] : p \in RawNumbers, fs \in RawFormantArrays}

InitSanitize ==
    /\ StartedScheduler
    /\ Quiet
    /\ toWorker = <<>>
    /\ posted = 1
    /\ answered = [i \in RequestIds |-> IF i <= 1 THEN 1 ELSE 0]
    /\ lastOp = "worker:onmessage"
    /\ formants = [f0 |-> 0, f1 |-> 0, f2 |-> 0, f3 |-> 0, f4 |-> 0]
    /\ history = <<>>
    /\ inserted = <<>>
    /\ formantHistory = <<>>
    /\ formantLog = <<>>
    /\ \E res \in RawResults :
          /\ lastResult = res
          /\ fromWorker = <<CalcSuccess(1, res)>>
    /\ LpcIdle

NextSanitize == OnMessage

SpecSanitize == InitSanitize /\ [][NextSanitize]_vars

(***************************************************************************)
(* levinsonForLpc on its own, called as computeLpcCoefficientsForDebug     *)
(* calls it, inside its try block.                                         *)
(***************************************************************************)
MaxOrder == 3

\* the values of an autocorrelation sequence handed to levinsonForLpc
LagValues == {Real(-1, 1), Zero, One, Real(2, 1), NaN}

Arrays(values, maxLen) == UNION {[1 .. n -> values] : n \in 0 .. maxLen}

\* the application is idle
AppIdle == AppMounted /\ Quiet /\ lastResult = NoResult

InitLevinson ==
    /\ AppIdle
    /\ lpcData = <<>>
    /\ lpcFactor = 1
    /\ lpcAlpha = Alpha
    /\ lpcOrder \in 0 .. MaxOrder
    /\ lpcR \in Arrays(LagValues, MaxOrder + 1)
    /\ NotCalled

appFrame == <<schedVars, dataArray, freqBoundsRef, pubVars, chanVars, workerVars, posted, frozenAt, inserted,
              mainTsVars, inputVars, playVars, lastResult, audio, presetVars, envelope, lastOp,
              serveVars>>

\* lines 906-910
CallLevinson ==
    /\ lpcCall = "none"
    /\ lpcCall' = "levinsonForLpc"
    /\ lpcRun' = levinsonForLpc(lpcOrder, lpcR)
    /\ lpcOut' = TryLevinson(lpcOrder, lpcR)
    /\ UNCHANGED <<appFrame, lpcData, lpcOrder, lpcFactor, lpcAlpha, lpcR>>

NextLevinson == CallLevinson

SpecLevinson == InitLevinson /\ [][NextLevinson]_vars

(***************************************************************************)
(* applyHammingWindowInPlace on its own.                                   *)
(***************************************************************************)
MaxFrame == 3

\* the samples of a frame
Levels == {Real(-1, 1), Zero, One, Real(2, 1)}

InitWindow ==
    /\ AppIdle
    /\ lpcData \in Arrays(Levels, MaxFrame)
    /\ lpcOrder = 0
    /\ lpcFactor = 1
    /\ lpcAlpha = Alpha
    /\ lpcR = <<>>
    /\ NotCalled

CallHamming ==
    /\ lpcCall = "none"
    /\ lpcCall' = "applyHammingWindowInPlace"
    /\ lpcOut' = applyHammingWindowInPlace(lpcData)
    /\ UNCHANGED <<appFrame, lpcData, lpcOrder, lpcFactor, lpcAlpha, lpcR, lpcRun>>

NextWindow == CallHamming

SpecWindow == InitWindow /\ [][NextWindow]_vars

(***************************************************************************)
(* preEmphasizeInPlace, preprocessSignalForLpc and autocorrelateForLpc,    *)
(* each on its own.                                                        *)
(***************************************************************************)
\* pre-emphasis coefficients: that of line 902, and others a caller can pass
Alphas == {Alpha, Real(1, 2), Zero, One}

InitPreEmphasis ==
    /\ AppIdle
    /\ lpcData \in Arrays(Levels, MaxFrame)
    /\ lpcAlpha \in Alphas
    /\ lpcOrder = 0
    /\ lpcFactor = 1
    /\ lpcR = <<>>
    /\ NotCalled

CallPreEmphasize ==
    /\ lpcCall = "none"
    /\ lpcCall' = "preEmphasizeInPlace"
    /\ lpcOut' = preEmphasizeInPlace(lpcData, lpcAlpha)
    /\ UNCHANGED <<appFrame, lpcData, lpcOrder, lpcFactor, lpcAlpha, lpcR, lpcRun>>

NextPreEmphasis == CallPreEmphasize

SpecPreEmphasis == InitPreEmphasis /\ [][NextPreEmphasis]_vars

CallPreprocess ==
    /\ lpcCall = "none"
    /\ lpcCall' = "preprocessSignalForLpc"
    /\ lpcOut' = preprocessSignalForLpc(lpcData, lpcAlpha)
    /\ UNCHANGED <<appFrame, lpcData, lpcOrder, lpcFactor, lpcAlpha, lpcR, lpcRun>>

NextPreprocess == CallPreprocess

SpecPreprocess == InitPreEmphasis /\ [][NextPreprocess]_vars

InitAutocorrelate ==
    /\ AppIdle
    /\ lpcData \in Arrays(Levels, MaxFrame)
    /\ lpcOrder \in 0 .. MaxOrder
    /\ lpcFactor = 1
    /\ lpcAlpha = Alpha
    /\ lpcR = <<>>
    /\ NotCalled

CallAutocorrelate ==
    /\ lpcCall = "none"
    /\ lpcCall' = "autocorrelateForLpc"
    /\ lpcOut' = autocorrelateForLpc(lpcData, lpcOrder)
    /\ UNCHANGED <<appFrame, lpcData, lpcOrder, lpcFactor, lpcAlpha, lpcR, lpcRun>>

NextAutocorrelate == CallAutocorrelate

SpecAutocorrelate == InitAutocorrelate /\ [][NextAutocorrelate]_vars

(***************************************************************************)
(* computeLpcCoefficientsForDebug on its own.  The frames it is given are  *)
(* those whose downsampled samples are all equal: the exact arithmetic of  *)
(* any other frame leaves the 32-bit integers of TLC.                      *)
(***************************************************************************)
MaxFactor == 2

\* downsampleFactor as line 891 leaves it
Factor(downsampleFactor) == IF downsampleFactor <= 0 THEN 1 ELSE downsampleFactor

Flat(data) == \A i \in 1 .. Len(data) : data[i] = data[1]

InitLpcDebug ==
    /\ AppIdle
    /\ lpcData \in Arrays(Levels, MaxFrame)
    /\ lpcOrder \in 0 .. MaxOrder
    /\ lpcFactor \in 0 .. MaxFactor
    /\ lpcAlpha = Alpha
    /\ Len(lpcData) > 0 => Flat(Downsampled(lpcData, Factor(lpcFactor)))
    /\ lpcR = <<>>
    /\ NotCalled

\* lines 884-911
CallComputeLpc ==
    /\ lpcCall = "none"
    /\ lpcCall' = "computeLpcCoefficientsForDebug"
    /\ lpcOut' = computeLpcCoefficientsForDebug(lpcData, lpcOrder, lpcFactor)
    /\ lpcR' = IF lpcOrder <= 0 \/ Len(lpcData) = 0 THEN <<>>
               ELSE autocorrelateForLpc(preprocessSignalForLpc(
                        Downsampled(lpcData, Factor(lpcFactor)), Alpha), lpcOrder)
    /\ UNCHANGED <<appFrame, lpcData, lpcOrder, lpcFactor, lpcAlpha, lpcRun>>

NextLpcDebug == CallComputeLpc

SpecLpcDebug == InitLpcDebug /\ [][NextLpcDebug]_vars

(***************************************************************************)
(* Properties of the scheduler.                                            *)
(***************************************************************************)
Running == formantIntervalRef /\ analysisRunningRef /\ ~isFrozenRef

CalcRequests(q) == Cardinality({i \in 1 .. Len(q) : q[i].type = "calcFormants"})

ValuesOf(sample) ==
    [f0 |-> sample.f0, f1 |-> sample.f1, f2 |-> sample.f2, f3 |-> sample.f3,
     f4 |-> sample.f4]

\* C1: a step that ends with the scheduler frozen (the freeze transition and
\* every step taken while frozen, the handling of a success response of a
\* request dispatched before the freeze among them) leaves the published
\* formants and the history buffer as they were.
C1_FreezeDiscardsResponse ==
    [][isFrozenRef' => (formants' = formants /\ history' = history)]_vars

\* a success response of a request dispatched while running has just been
\* handled with the scheduler frozen
C1_Witness ==
    /\ lastOp = "onmessage:calcFormants:success"
    /\ isFrozenRef
    /\ frozenAt >= 1

\* C3: while frozen the dispatch interval is not armed and no step posts a
\* calcFormants request; the freeze transition asks the AudioContext (when
\* there is an open one) to suspend; the unfreeze transition re-arms the
\* interval and sets the scheduler running.
C3_FreezeStopsDispatch ==
    [][/\ isFrozenRef' => (~formantIntervalRef' /\ posted' = posted
                            /\ CalcRequests(toWorker') <= CalcRequests(toWorker))
       /\ (~isFrozenRef /\ isFrozenRef' /\ audioContextRef \notin {"null", "closed"})
             => audioContextRef' = "suspended"
       /\ (isFrozenRef /\ ~isFrozenRef')
             => (formantIntervalRef' /\ analysisRunningRef')]_vars

\* a request was posted before a freeze, and another one after the unfreeze
C3_Witness ==
    /\ ~isFrozenRef
    /\ frozenAt >= 1
    /\ posted > frozenAt
    /\ audioContextRef = "running"

\* C4: once the cleanup has run nothing is armed, no worker is alive, no
\* request is posted and the published state does not change.
C4_StoppedIsTerminal ==
    [][~mounted' => /\ ~formantIntervalRef'
                    /\ \A l \in Loops : frames'[l] = 0
                    /\ workerRef' # "alive"
                    /\ posted' = posted
                    /\ formants' = formants
                    /\ history' = history]_vars

\* C5: handling a success response while not frozen publishes exactly the
\* sanitized values of that response, and appends a history sample with the
\* same values; in every state the newest history sample carries the
\* published formants.
C5_LastAppliedWins ==
    [][/\ (fromWorker # <<>> /\ lastOp' = "onmessage:calcFormants:success" /\ ~isFrozenRef)
             => /\ formants' = Sanitized(Head(fromWorker).result)
                /\ Len(history') = Len(history) + 1
       /\ history' # <<>> => ValuesOf(history'[Len(history')]) = formants']_vars

\* a response has been applied over a different one while a third message
\* of the worker is still to be handled
C5_Witness ==
    /\ lastOp = "onmessage:calcFormants:success"
    /\ ~isFrozenRef
    /\ Len(history) >= 2
    /\ ValuesOf(history[Len(history) - 1]) # formants

\* C6: a tick of the dispatch interval that passes the guards of calcFormants
\* posts exactly one request, whatever is still in flight.
C6_NoBackpressure ==
    [][(/\ lastOp' = "calcFormants"
        /\ formantIntervalRef /\ posted < MaxPosted
        /\ ~isFrozenRef /\ analysisRunningRef
        /\ analyserRef /\ audioContextRef # "null" /\ workerRef = "alive")
          => /\ posted' = posted + 1
             /\ Len(toWorker') = Len(toWorker) + 1
             /\ SubSeq(toWorker', 1, Len(toWorker)) = toWorker
             /\ toWorker'[Len(toWorker')].type = "calcFormants"
             /\ toWorker'[Len(toWorker')].id = posted + 1]_vars

\* two calcFormants requests are in flight
C6_Witness ==
    /\ Len(toWorker) >= 2
    /\ \A i \in 1 .. Len(toWorker) : toWorker[i].type = "calcFormants"

Received(id) ==
    /\ IF id = 0 THEN setupPc = "done" ELSE id <= posted
    /\ \A i \in 1 .. Len(toWorker) : toWorker[i].id # id

WellFormed(r) ==
    /\ r.type = (IF r.id = 0 THEN "init" ELSE "calcFormants")
    /\ r.status = "success" => (~r.hasError /\ (r.type = "calcFormants" => r.hasFormants /\ r.hasPitch))
    /\ r.status = "error" => (r.hasError /\ ~r.hasFormants /\ ~r.hasPitch)

\* C7: no message is answered twice; a message whose handler has ended has
\* been answered exactly once; every response is a success with formants and
\* pitch and no error, or an error with an error string and no result.
C7_OneResponsePerMessage ==
    /\ \A id \in RequestIds : answered[id] <= 1
    /\ workerRef = "alive" =>
          \A id \in RequestIds :
              (Received(id) /\ \A h \in handlers : h.id # id) => answered[id] = 1
    /\ \A i \in 1 .. Len(fromWorker) : WellFormed(fromWorker[i])

\* the init message and two requests have been answered, one with a result
\* and one with an error
C7_Witness ==
    /\ workerRef = "alive"
    /\ \A id \in 0 .. 2 : answered[id] = 1
    /\ Len(fromWorker) = 2
    /\ fromWorker[1].status # fromWorker[2].status

\* C8: while the scheduler is running every render loop has its next frame
\* requested.
C8_RenderLoopsKeepRunning ==
    (mounted /\ setupPc = "done" /\ Running) => \A l \in Loops : frames[l] >= 1

\* C9: after a failure answer of the worker has been handled (and the user
\* has not frozen the analysis) the error state is set and the render loops
\* are active.
C9_FailureKeepsRendering ==
    (mounted /\ ~isFrozenRef
       /\ lastOp \in {"onmessage:init:error", "onmessage:calcFormants:error"})
      => (error # "null" /\ \A l \in Loops : frames[l] >= 1)

(***************************************************************************)
(* Properties of the history buffers.                                      *)
(***************************************************************************)
\* the last n elements of log, all of them when it has fewer
LastOf(log, n) ==
    IF Len(log) <= n THEN log ELSE SubSeq(log, Len(log) - n + 1, Len(log))

\* C2: each buffer holds at most MAX_HISTORY samples, and it holds the most
\* recently added ones in the order they were added: once MAX_HISTORY + 1
\* samples have been added the first of them is gone.
C2_HistoryIsBoundedFifo ==
    /\ Len(history) <= MAX_HISTORY
    /\ history = LastOf(inserted, MAX_HISTORY)
    /\ Len(formantHistory) <= MAX_HISTORY
    /\ formantHistory = LastOf(formantLog, MAX_HISTORY)

\* MAX_HISTORY + 1 samples have been added to each buffer: the oldest sample
\* has been evicted from both
C2_Witness ==
    /\ Len(inserted) = MAX_HISTORY + 1
    /\ Len(history) = MAX_HISTORY
    /\ history[1] = inserted[2]
    /\ Len(formantLog) = MAX_HISTORY + 1
    /\ formantHistory[1] = formantLog[2]

SchedulerUntouched ==
    /\ UNCHANGED <<loopVars, isFrozenRef, workerRef, toWorker, fromWorker, posted>>

FailureStep ==
    /\ (lastOp' = "startMicInput:failed") =>
          (/\ error' = "getUserMedia failed"
           /\ fileError' = fileError
           /\ SchedulerUntouched)
    /\ (lastOp' = "startFilePlayback:failed") =>
          (/\ fileError' = "Could not load file"
           /\ error' = error
           /\ SchedulerUntouched)

StartAccepted ==
    (failed # {} /\ mounted /\ inputCalls < MaxInputCalls) =>
        (ENABLED startMicInput /\ ENABLED startFilePlayback)

(***************************************************************************)
(* C10: a microphone failure and a file decode failure are told apart and  *)
(* neither stops the scheduler.  The step in which startMicInput reports   *)
(* its failure sets the error state to the getUserMedia message and leaves *)
(* fileError alone; the step in which startFilePlayback reports its        *)
(* failure sets fileError to the "Could not load file" message and leaves  *)
(* the error state alone; both leave the dispatch interval, the render     *)
(* loops, the frozen flag and the worker as they were.  After a failure,   *)
(* while the component is mounted, startMicInput and startFilePlayback     *)
(* can still be called.                                                    *)
(***************************************************************************)
C10_InputFailuresAreTellable == [][FailureStep]_vars /\ []StartAccepted

\* a start function called after a failure, with no other call pending, has
\* connected its source while the scheduler dispatches
C10_Witness ==
    /\ retried
    /\ failed # {}
    /\ lastOp \in {"startMicInput:connected", "startBufferPlayback:playing"}
    /\ formantIntervalRef
    /\ workerRef = "alive"

(***************************************************************************)
(* Properties of source switches and of responses handled while frozen.    *)
(***************************************************************************)
\* C11: a step that switches the input source (inputMode changes from mic to
\* file in startBufferPlayback, or from file to mic in startMicInput) leaves
\* the history buffer empty.
C11_SwitchClearsHistory ==
    [][(inputMode' # inputMode) => history' = <<>>]_vars

\* C12: handling a calcFormants error response while the scheduler is frozen
\* leaves the error state as it was.
C12_FreezeDiscardsError ==
    [][(isFrozenRef /\ lastOp' = "onmessage:calcFormants:error") => error' = error]_vars

(***************************************************************************)
(* Properties of the published values.                                     *)
(***************************************************************************)
Fields(sample) == {sample.f0, sample.f1, sample.f2, sample.f3, sample.f4}

\* the value of slot i of the response: the pitch for 0, formants[i] otherwise
RawSlot(res, i) == IF i = 0 THEN res.pitch ELSE At(res.formants, i)

SlotOf(sample, i) ==
    IF i = 0 THEN sample.f0 ELSE IF i = 1 THEN sample.f1 ELSE IF i = 2 THEN sample.f2
    ELSE IF i = 3 THEN sample.f3 ELSE sample.f4

\* C13: every published formant value and every f0..f4 of every history
\* sample is a number that is 0 or greater than 0; once the response has
\* been handled, a slot whose value in the response was NaN, an infinity,
\* negative, zero or missing holds 0 and any other slot holds the value of
\* the response.
C13_PublishedValuesAreSane ==
    /\ \A v \in Fields(formants) : v \in Nat
    /\ \A i \in 1 .. Len(history) : \A v \in Fields(history[i]) : v \in Nat
    /\ lastOp = "onmessage:calcFormants:success" =>
          \A i \in 0 .. 4 :
              LET x == RawSlot(lastResult, i)
              IN /\ SlotOf(formants, i) =
                       (IF x.k = "finite" /\ x.v > 0 THEN x.v ELSE 0)
                 /\ SlotOf(history[Len(history)], i) = SlotOf(formants, i)

\* a response with a NaN pitch, a negative first formant, an infinite second
\* formant and the same again has been published as zeros
C13_Witness ==
    /\ lastOp = "onmessage:calcFormants:success"
    /\ lastResult = [pitch |-> NaN, formants |-> <<Num(-1), NegInf, Num(-1), NegInf>>]
    /\ formants = [f0 |-> 0, f1 |-> 0, f2 |-> 0, f3 |-> 0, f4 |-> 0]
    /\ Len(history) = 1

\* C14: in the history buffer every sample but the first has a time exactly
\* FORMANT_INTERVAL_MS greater than the sample before it, so times increase
\* strictly in buffer order; the first sample pushed to the empty buffer has
\* time 0.
C14_TimestampsStepByInterval ==
    /\ \A i \in 2 .. Len(history) :
          history[i].time = history[i - 1].time + FORMANT_INTERVAL_MS
    /\ inserted # <<>> => inserted[1].time = 0
    /\ (history # <<>> /\ Len(inserted) <= MAX_HISTORY) => history[1].time = 0

\* after a freeze and a resume a sample has been pushed to the full buffer:
\* the sample of time 0 has been evicted
C14_Witness ==
    /\ lastOp = "onmessage:calcFormants:success"
    /\ ~isFrozenRef
    /\ frozenAt = 0
    /\ Len(history) = MAX_HISTORY
    /\ history[1].time = FORMANT_INTERVAL_MS
    /\ history[MAX_HISTORY].time = MAX_HISTORY * FORMANT_INTERVAL_MS

\* a request of the dispatch interval that is waiting for the worker
CalcMessages(q) == {i \in 1 .. Len(q) : q[i].type = "calcFormants"}

\* a dispatch posts the samples of the signal as it is at the dispatch
PostsCurrentSignal ==
    (lastOp' = "calcFormants" /\ Len(toWorker') > Len(toWorker))
        => toWorker'[Len(toWorker')].audioData = audio

\* no step changes a request that stays posted
PostedStaysAsPosted ==
    \A i \in CalcMessages(toWorker) : \A j \in CalcMessages(toWorker') :
        toWorker'[j].id = toWorker[i].id => toWorker'[j] = toWorker[i]

\* C15: the samples of a dispatched calcFormants request are those of the
\* signal at its dispatch, and no later capture into the shared buffer, by
\* calcFormants, drawSpectrum or drawLPCFilter, changes a request that has
\* been posted.
C15_PostedSamplesAreACopy == [][PostsCurrentSignal /\ PostedStaysAsPosted]_vars

\* a render loop has captured a later frame into the buffer while a request
\* that carries an earlier one waits for the worker
C15_Witness ==
    /\ lastOp \in {"drawSpectrum", "drawLPCFilter"}
    /\ \E i \in CalcMessages(toWorker) :
          /\ toWorker[i].audioData # dataArray
          /\ toWorker[i].audioData # Silence
          /\ dataArray = audio

\* C16: levinsonForLpc throws whenever order + 1 exceeds the length of r, and
\* the try and catch of computeLpcCoefficientsForDebug turn that into the
\* empty array.
C16_ShortLagsThrow ==
    (lpcCall = "levinsonForLpc" /\ lpcOrder + 1 > Len(lpcR))
        => lpcRun.threw /\ lpcOut = <<>>

C16_Witness ==
    /\ lpcCall = "levinsonForLpc"
    /\ lpcOrder = 2
    /\ Len(lpcR) = 2
    /\ lpcRun.threw
    /\ lpcOut = <<>>

\* x >= y; a comparison with NaN is false
Ge(x, y) == ~IsNaN(x) /\ ~IsNaN(y) /\ ~Lt(x, y)

\* C17: at every division of levinsonForLpc the divisor e is at least 1e-12,
\* whatever r is.
C17_DivisorAtLeastFloor ==
    lpcCall = "levinsonForLpc" =>
        \A i \in 1 .. Len(lpcRun.divisors) : Ge(lpcRun.divisors[i], EnergyFloor)

AllZero(r) == \A i \in 1 .. Len(r) : r[i] = Zero

\* C18: for an r of zeros that is long enough, levinsonForLpc returns a[0] = 1
\* and a[1..order] = 0, its energy is 1e-12 at every division and at the
\* return, and no value is NaN or infinite.
C18_ZeroLagsGiveUnitFilter ==
    (lpcCall = "levinsonForLpc" /\ AllZero(lpcR) /\ Len(lpcR) >= lpcOrder + 1)
        => /\ ~lpcRun.threw
           /\ lpcOut = [x \in 1 .. lpcOrder + 1 |-> IF x = 1 THEN One ELSE Zero]
           /\ lpcRun.e = EnergyFloor
           /\ Len(lpcRun.divisors) = lpcOrder
           /\ \A i \in 1 .. lpcOrder : lpcRun.divisors[i] = EnergyFloor

C18_Witness ==
    /\ lpcCall = "levinsonForLpc"
    /\ lpcOrder = 2
    /\ lpcR = <<Zero, Zero, Zero>>
    /\ lpcOut = <<One, Zero, Zero>>
    /\ lpcRun.divisors = <<EnergyFloor, EnergyFloor>>

\* C19: applyHammingWindowInPlace leaves every sample of a frame finite, the
\* one sample of a frame of length 1 included, and leaves the empty frame as
\* it is.
C19_WindowLeavesFiniteSamples ==
    lpcCall = "applyHammingWindowInPlace" =>
        /\ Len(lpcOut) = Len(lpcData)
        /\ \A i \in 1 .. Len(lpcOut) : NumberIsFinite(lpcOut[i])

\* C20: when the downsampled frame has no more samples than the order,
\* computeLpcCoefficientsForDebug returns the empty array.
C20_ShortFrameGivesEmpty ==
    (/\ lpcCall = "computeLpcCoefficientsForDebug"
     /\ Len(lpcData) > 0
     /\ Len(Downsampled(lpcData, Factor(lpcFactor))) <= lpcOrder)
        => lpcOut = <<>>

\* levinsonForLpc has returned for an order of 1 or more and an r long enough
Solved == lpcCall = "levinsonForLpc" /\ lpcOrder >= 1 /\ Len(lpcR) >= lpcOrder + 1

\* C21: for an order L of 1 or more and an r of at least L + 1 values,
\* levinsonForLpc returns L + 1 coefficients of which the first is 1, and the
\* first coefficient is 1 after every iteration.
C21_UnitLeadingCoefficient ==
    Solved =>
        /\ ~lpcRun.threw
        /\ Len(lpcOut) = lpcOrder + 1
        /\ lpcOut[1] = One
        /\ Len(lpcRun.steps) = lpcOrder
        /\ \A i \in 1 .. lpcOrder :
              Len(lpcRun.steps[i]) = lpcOrder + 1 /\ lpcRun.steps[i][1] = One

C21_Witness ==
    /\ Solved
    /\ lpcOrder = 3
    /\ Len(lpcR) = 4
    /\ \A i \in 1 .. 3 : NumberIsFinite(lpcRun.ks[i]) /\ lpcRun.ks[i] # Zero
    /\ lpcOut[1] = One

\* the recursion as the claim states it: k of iteration i, from the
\* coefficients a of the iteration before and the energy e
RefK(a, r, i, e) ==
    Div(Neg(Add(r[i + 1], Sum([j \in 1 .. i - 1 |-> Mul(a[j + 1], r[i - j + 1])]))), e)

\* coefficient j after iteration i
RefA(a, k, i, j) ==
    IF j \in 1 .. i - 1 THEN Add(a[j + 1], Mul(k, a[i - j + 1]))
    ELSE IF j = i THEN k ELSE a[j + 1]

\* the coefficients before iteration i
Before(i) == IF i = 1 THEN [x \in 1 .. lpcOrder + 1 |-> IF x = 1 THEN One ELSE Zero]
             ELSE lpcRun.steps[i - 1]

\* C22: at iteration i of levinsonForLpc, k is
\* -(r[i] + sum over j = 1..i-1 of a[j]*r[i-j]) / e, and the new coefficients
\* are a[j] + k*a[i-j] for j = 1..i-1 and k for j = i, all taken from the
\* coefficients of the iteration before.
C22_RecursionMatchesReference ==
    Solved =>
        \A i \in 1 .. lpcOrder :
            /\ lpcRun.ks[i] = RefK(Before(i), lpcR, i, lpcRun.divisors[i])
            /\ \A j \in 0 .. lpcOrder :
                  lpcRun.steps[i][j + 1] = RefA(Before(i), lpcRun.ks[i], i, j)

\* the third iteration updates two coefficients that are not zero with a k
\* that is not zero: updating in place would give another a[2]
C22_Witness ==
    /\ Solved
    /\ lpcOrder = 3
    /\ \A x \in 1 .. 4 : NumberIsFinite(lpcR[x])
    /\ lpcRun.ks[3] # Zero
    /\ lpcRun.steps[2][2] # Zero
    /\ lpcRun.steps[2][3] # Zero
    /\ lpcRun.steps[3] # UpdateInPlace(lpcRun.steps[2], lpcRun.ks[3], 3)

\* C23: preEmphasizeInPlace leaves (1 - alpha) * x[0] in y[0] and
\* x[i] - alpha * x[i-1] in y[i] for i >= 1, x being the frame as it was
\* given; the empty frame is left as it is.
C23_PreEmphasisUsesOriginal ==
    lpcCall = "preEmphasizeInPlace" =>
        /\ Len(lpcOut) = Len(lpcData)
        /\ \A i \in 1 .. Len(lpcData) :
              lpcOut[i] = IF i = 1 THEN Mul(Sub(One, lpcAlpha), lpcData[1])
                                   ELSE Sub(lpcData[i], Mul(lpcAlpha, lpcData[i - 1]))

\* a frame for which filtering the filtered sample would differ
C23_Witness ==
    /\ lpcCall = "preEmphasizeInPlace"
    /\ lpcAlpha = Alpha
    /\ lpcData = <<One, One, Real(2, 1)>>
    /\ lpcOut = <<Real(3, 100), Real(3, 100), Real(103, 100)>>

\* C24: preprocessSignalForLpc is mean removal, then the Hamming window,
\* then pre-emphasis, each over the whole frame; its output is as long as
\* its input and depends on nothing but its input; the empty frame stays
\* empty.
C24_PreprocessOrder ==
    lpcCall = "preprocessSignalForLpc" =>
        /\ lpcOut = preEmphasizeInPlace(
                        applyHammingWindowInPlace(subtractMeanInPlace(lpcData)), lpcAlpha)
        /\ Len(lpcOut) = Len(lpcData)
        /\ lpcData = <<>> => subtractMeanInPlace(lpcData) = <<>> /\ lpcOut = <<>>

\* a frame for which the order of the three steps matters
C24_Witness ==
    /\ lpcCall = "preprocessSignalForLpc"
    /\ lpcAlpha = Alpha
    /\ lpcData = <<Zero, One, Real(2, 1)>>
    /\ \A i \in 1 .. 3 : NumberIsFinite(lpcOut[i])
    /\ lpcOut # PreprocessWindowLast(lpcData, lpcAlpha)
    /\ lpcOut # applyHammingWindowInPlace(subtractMeanInPlace(lpcData))

\* the sum the claim gives for lag k of the frame x
RefLag(x, k) == Sum([i \in 1 .. Len(x) - k |-> Mul(x[i], x[i + k])])

\* C25: autocorrelateForLpc(signal, L) returns L + 1 values, the value of lag
\* k being the sum of x[i] * x[i+k] over i = 0 .. N-1-k; every lag from N on
\* is 0, and so is every lag of the empty signal.
C25_AutocorrelationSums ==
    lpcCall = "autocorrelateForLpc" =>
        /\ Len(lpcOut) = lpcOrder + 1
        /\ \A k \in 0 .. lpcOrder :
              /\ lpcOut[k + 1] = RefLag(lpcData, k)
              /\ k >= Len(lpcData) => lpcOut[k + 1] = Zero

\* lags below and beyond the length of the frame
C25_Witness ==
    /\ lpcCall = "autocorrelateForLpc"
    /\ lpcOrder = 3
    /\ lpcData = <<One, Real(2, 1)>>
    /\ lpcOut = <<Real(5, 1), Real(2, 1), Zero, Zero>>

\* C26: the envelope drawLPCFilter draws has 1024 points; the frequency of
\* point i, i*(sampleRate/2)/1024/downsampleFactor, is 0 for point 0, grows
\* strictly with i and stays below (sampleRate/2)/downsampleFactor; and the
\* downsampleFactor of this mapping is the one given to the evaluator in the
\* same frame, whatever preset was selected between the frames.
C26_EnvelopeFrequencies ==
    envelope.drawn =>
        LET m == envelope.mapping
            ev == envelope.evaluator
            top == Div(Div(Real(ev.sampleRate, 1), Real(2, 1)), Real(ev.downsampleFactor, 1))
            freq == [i \in 0 .. 1023 |-> Freq(i, m)]
        IN /\ ev.graphSize = 1024 /\ m.graphSize = 1024
           /\ m.downsampleFactor = ev.downsampleFactor
           /\ freq[0] = Zero
           /\ \A i \in 0 .. 1022 : Lt(freq[i], freq[i + 1])
           /\ \A i \in 0 .. 1023 : Lt(freq[i], top)

\* after the preset has changed, an envelope is drawn at 44100 Hz with the
\* factor 6 of the preset selected now; its last point is below 3675 Hz
C26_Witness ==
    /\ lastOp = "drawLPCFilter"
    /\ envelope.drawn
    /\ lpcPresetRef = LPC_PRESETS[3]
    /\ envelope.evaluator = [lpcOrder |-> 12, sampleRate |-> 44100, downsampleFactor |-> 6,
                              graphSize |-> 1024]
    /\ Lt(Freq(1023, envelope.mapping), Real(3675, 1))
    /\ Lt(Real(3670, 1), Freq(1023, envelope.mapping))

\* a calcFormants request is posted to the worker in this step
RequestPosted ==
    /\ Len(toWorker') = Len(toWorker) + 1
    /\ toWorker'[Len(toWorker')].type = "calcFormants"

\* the worker has answered the init message
InitAnswered == answered[0] > 0

\* C27: no calcFormants request is posted to the worker before the worker
\* has reported the success of its initialisation, however the freeze
\* toggles of the user interleave with the initialisation (and no interval
\* is armed after the worker has reported a failure of the initialisation).
C27_NoRequestBeforeInit == [][RequestPosted => InitAnswered]_vars

\* the handler of a calcFormants message gets its bindings at line 33 and
\* calls the analysis functions in this step
AnalysisCalled ==
    /\ lastOp' = "worker:onmessage"
    /\ toWorker # <<>>
    /\ Head(toWorker).type = "calcFormants"
    /\ WasmLoaded

\* C28: in the worker, however init and calcFormants messages interleave, no
\* analysis function is called before default() of the WASM module has
\* completed: ensureWasmLoaded never returns bindings whose initialisation
\* is still pending.
C28_AnalysisAfterInit == [][AnalysisCalled => wasmReady]_vars

\* C29: however startMicInput, startFilePlayback, startBufferPlayback and
\* their completions interleave, at most one source node is connected to
\* the analyser, every acquired microphone stream is the one micStreamRef
\* holds or has been stopped, and inputMode names the connected source.
C29_OneSourceConnected ==
    /\ micNodes + fileNodes <= 1
    /\ openStreams <= (IF micStreamRef THEN 1 ELSE 0)
    /\ micNodes > 0 => inputMode = "mic"
    /\ fileNodes > 0 => inputMode = "file"

\* C30: whatever the sequence of init successes of the worker, freeze
\* toggles and cleanups, at most one dispatch interval is armed and at most
\* one animation-frame callback is pending for each render loop:
\* startAnalysisLoops arms no second timer or loop while one is armed.
C30_OneTimerOneFramePerLoop ==
    /\ intervals <= 1
    /\ \A l \in Loops : frames[l] <= 1

\* the analysis was resumed before the worker reported its initialisation,
\* and the success of the initialisation has started the loops again: one
\* interval and one callback of each loop
C30_Witness ==
    /\ lastOp = "onmessage:init:success"
    /\ posted > 0
    /\ intervals = 1
    /\ \A l \in Loops : frames[l] = 1

\* what the refs of the scheduler say in one state
FrozenIsStopped == isFrozenRef => (~analysisRunningRef /\ ~formantIntervalRef /\ intervals = 0)
ArmedIsRunning == (formantIntervalRef \/ intervals > 0) => (analysisRunningRef /\ ~isFrozenRef)

\* the second of two consecutive freeze toggles, the first of which froze
SecondToggle == lastOp = "freeze" /\ lastOp' = "unfreeze"

\* C31: in every reachable state a frozen scheduler has analysisRunning
\* false and no interval handle; an armed interval means analysisRunning is
\* true and the scheduler is not frozen; and two consecutive freeze toggles
\* leave the scheduler running with the interval armed.
C31_FreezeStateIsConsistent ==
    /\ [](FrozenIsStopped /\ ArmedIsRunning)
    /\ [][SecondToggle => (~isFrozenRef' /\ analysisRunningRef' /\ formantIntervalRef'
                            /\ intervals' = 1)]_vars

\* the scheduler was frozen after it had posted a request, and the next
\* toggle has just resumed it: running, with one interval armed
C31_Witness ==
    /\ lastOp = "unfreeze"
    /\ frozenAt >= 1
    /\ Running
    /\ intervals = 1

\* the order and the factor of request m are those of one entry of LPC_PRESETS
FromOnePreset(m) ==
    \E n \in 1 .. Len(LPC_PRESETS) :
        /\ m.lpcOrder = LPC_PRESETS[n].formantOrder
        /\ m.downsampleFactor = LPC_PRESETS[n].downsampleFactor

\* a snapshot without a preset id of the three has just been imported
ImportedUnknownPreset == lastOp' \in {"import:whisper", "import:none"}

\* C32: every calcFormants request carries the lpcOrder and the
\* downsampleFactor of one single entry of LPC_PRESETS, whatever presets
\* were selected and snapshots imported; the import of a snapshot whose
\* lpcPresetId is none of speech, singer and noisy leaves the preset as it
\* was.
C32_RequestFromOnePreset ==
    /\ [](\A i \in 1 .. Len(toWorker) :
            toWorker[i].type = "calcFormants" => FromOnePreset(toWorker[i]))
    /\ [](lpcPresetId \in PresetIds /\ lpcPresetRef \in {LPC_PRESETS[n] : n \in 1 .. 3})
    /\ [][ImportedUnknownPreset =>
             (lpcPresetId' = lpcPresetId /\ lpcPresetRef' = lpcPresetRef)]_vars

\* a request of the preset of the start is waiting, a snapshot has selected
\* the preset noisy, and the request posted since carries order 10 with
\* factor 6
C32_Witness ==
    /\ Len(toWorker) = 2
    /\ toWorker[1].lpcOrder = 14 /\ toWorker[1].downsampleFactor = 4
    /\ toWorker[2].lpcOrder = 10 /\ toWorker[2].downsampleFactor = 6
    /\ lpcPresetId = "noisy"

\* handleTogglePlay runs in this step
Toggled == lastOp' \in {"togglePlay:paused", "togglePlay:start"}

\* startBufferPlayback starts a source in this step
Restarted == lastOp' = "startBufferPlayback:playing"

MaxSegments == 2

\* the directory of the package, its dist directory, a second directory
\* whose name starts with "dist", and the files
Chars(name) ==
    CASE name = "app"        -> <<"a", "p", "p">>
      [] name = "dist"       -> <<"d", "i", "s", "t">>
      [] name = "dist2"      -> <<"d", "i", "s", "t", "2">>
      [] name = "f"          -> <<"f">>
      [] name = "index.html" -> <<"i", "n", "d", "e", "x", ".", "h", "t", "m", "l">>

\* line 7
root == <<"app", "dist">>

\* lines 41: the regular files of the machine (existsSync and isFile)
RegularFiles ==
    { <<"app", "dist", "index.html">>, <<"app", "dist", "f">>,
      <<"app", "dist2", "f">>, <<"app", "f">> }

\* lines 10-17 and 47-48
extname(filePath) ==
    IF filePath # <<>> /\ filePath[Len(filePath)] = "index.html" THEN ".html" ELSE ""
mimeTypes(ext) ==
    IF ext = ".html" THEN "text/html" ELSE "application/octet-stream"

\* req.url of line 20
Parts == {"app", "dist", "dist2", "f", "..", "%2e%2e", ""}
RawSegments == {<<a>> : a \in Parts} \cup {<<a, b>> : a \in Parts, b \in Parts}
\* a url that begins with two slashes names a host, not a path of this host
NamesHost(path) == Len(path) >= 2 /\ path[1] = <<"">>
RawPaths ==
    {p \in UNION {[1 .. n -> RawSegments] : n \in 0 .. MaxSegments} : ~NamesHost(p)}
Requests ==
    {[hasUrl |-> FALSE, path |-> <<>>]} \cup {[hasUrl |-> TRUE, path |-> p] : p \in RawPaths}

\* line 26: the path of new URL(req.url, "http://localhost"); the parser
\* removes the double-dot segments, written plainly or percent-encoded,
\* together with the segment before them, and leaves an empty segment when
\* the last segment is one; a segment with an encoded slash is kept as it is
DoubleDot(segment) == segment \in {<<"..">>, <<"%2e%2e">>}
RECURSIVE ParsePath(_, _)
ParsePath(segments, out) ==
    IF segments = <<>> THEN out
    ELSE IF DoubleDot(Head(segments))
         THEN LET shortened == IF out = <<>> THEN out ELSE SubSeq(out, 1, Len(out) - 1)
              IN  ParsePath(Tail(segments),
                            IF Len(segments) = 1 THEN Append(shortened, <<"">>) ELSE shortened)
         ELSE ParsePath(Tail(segments), Append(out, Head(segments)))
URL(path) == IF path = <<>> THEN << <<"">> >> ELSE ParsePath(path, <<>>)

\* line 27: decodeURIComponent turns every %2F into a slash and %2e%2e into
\* two dots; the result is the pathname after its first slash, split at the
\* slashes
Decoded(part) == IF part = "%2e%2e" THEN ".." ELSE part
RECURSIVE decodeURIComponent(_)
decodeURIComponent(segments) ==
    IF segments = <<>> THEN <<>>
    ELSE [i \in 1 .. Len(Head(segments)) |-> Decoded(Head(segments)[i])]
            \o decodeURIComponent(Tail(segments))

\* lines 28-32: "/" is index.html, and the first slash is sliced off
Sliced(pathname) == IF pathname = <<"">> THEN <<"index.html">> ELSE pathname

\* line 34: path.resolve(root, pathname): a pathname that begins with a slash
\* is absolute and replaces the root; empty names are dropped and ".." leaves
\* the directory reached so far
RECURSIVE Normalize(_, _)
Normalize(names, dir) ==
    IF names = <<>> THEN dir
    ELSE LET name == Head(names)
         IN  Normalize(Tail(names),
                       CASE name = ""   -> dir
                         [] name = ".." -> IF dir = <<>> THEN dir ELSE SubSeq(dir, 1, Len(dir) - 1)
                         [] OTHER       -> Append(dir, name))
IsAbsolute(pathname) == Len(pathname) >= 2 /\ pathname[1] = ""
resolve(base, pathname) ==
    Normalize(pathname, IF IsAbsolute(pathname) THEN <<>> ELSE base)

\* the string of a path
RECURSIVE PathString(_)
PathString(filePath) ==
    IF filePath = <<>> THEN <<"/">>
    ELSE IF Len(filePath) = 1 THEN <<"/">> \o Chars(Head(filePath))
    ELSE <<"/">> \o Chars(Head(filePath)) \o PathString(Tail(filePath))

\* line 35: String.prototype.startsWith
startsWith(string, prefix) ==
    /\ Len(prefix) <= Len(string)
    /\ SubSeq(string, 1, Len(prefix)) = prefix

\* lines 19-51: the answer to one request
Answer(req) ==
    IF ~req.hasUrl THEN [status |-> 400, file |-> <<>>, type |-> ""]
    ELSE LET pathname == Sliced(decodeURIComponent(URL(req.path)))
             filePath == resolve(root, pathname)
         IN  IF ~startsWith(PathString(filePath), PathString(root))
             THEN [status |-> 403, file |-> <<>>, type |-> ""]
             ELSE IF filePath \notin RegularFiles
                  THEN [status |-> 404, file |-> <<>>, type |-> ""]
                  ELSE [status |-> 200, file |-> filePath,
                        type |-> mimeTypes(extname(filePath))]

serveFrame == <<schedVars, dataArray, freqBoundsRef, pubVars, chanVars, workerVars, posted, frozenAt, inserted,
                mainTsVars, inputVars, playVars, lastResult, audio, presetVars, envelope, lastOp,
                lpcData, lpcOrder, lpcFactor, lpcAlpha, lpcR, lpcOut, lpcRun, lpcCall>>

\* lines 19-51: the request listener; it keeps nothing from one request to
\* the next, so a behaviour holds one request
createServer ==
    /\ response = NotAnswered
    /\ \E req \in Requests :
        /\ request' = req
        /\ response' = Answer(req)
        /\ UNCHANGED serveFrame

InitServe ==
    /\ AppIdle
    /\ LpcIdle

NextServe == createServer

SpecServe == InitServe /\ [][NextServe]_vars

\* the file is in the directory dist or below it
InsideRoot(filePath) ==
    /\ Len(filePath) > Len(root)
    /\ SubSeq(filePath, 1, Len(root)) = root

\* the file the request path leads to
Target(req) == resolve(root, Sliced(decodeURIComponent(URL(req.path))))

\* C34: the server answers 200 only for regular files inside the dist root;
\* a request whose target is outside dist, by ".." segments or in a sibling
\* directory whose name starts with the name of the root, is answered 403
\* or 404 and its content is never served.
C34_ServesOnlyInsideRoot ==
    /\ response.status = 200
        => response.file \in RegularFiles /\ InsideRoot(response.file)
    /\ (request.hasUrl /\ ~InsideRoot(Target(request)) /\ Target(request) # root)
        => response.status \in {403, 404}

\* a file of the directory dist2 beside dist has been served
C34_SiblingServed ==
    /\ request.hasUrl
    /\ response.status = 200
    /\ response.file = <<"app", "dist2", "f">>

====
